---- MODULE Spec2Model ----
(***************************************************************************)
(* Model of the orchestration core of OOSC-25_EnE:                         *)
(*   src/src/event_bus.py     EventBus (Redis streams, consumer groups)    *)
(*   src/src/orchestrator.py  EnhancedOrchestrator (fan-out, aggregation,  *)
(*                            readiness, synthesis, ranking, status)       *)
(*   src/src/ranking_agent.py, src/src/suggestion_agent.py (collaborators) *)
(*                                                                         *)
(* The program is one asyncio event loop.  An action of this module is one *)
(* run of a coroutine between two suspension points (an await that really  *)
(* suspends: a Redis command or asyncio.to_thread), together with the      *)
(* effect of the Redis command that ends it.                               *)
(***************************************************************************)
EXTENDS Bags, FiniteSets, Integers, Sequences, TLC

\* ------------------------------------------------------------------ bounds
MaxTranscripts == 2      \* transcript entries ever appended to the stream
MaxJobs == 2             \* enrichment jobs ever scheduled (Spec, SpecPar)
MaxOrgJobs == 3          \* enrichment jobs ever scheduled (SpecOrg)
MaxRankLen == 3          \* suggestions handed to rank_suggestions (SpecRank)
MaxNetTranscripts == 1   \* transcript entries ever appended (SpecNet)
MaxEntities == 3         \* entities of one fragment (SpecPlan)
MaxStoreJobs == 3        \* enrichment jobs ever scheduled (SpecStore)
MaxSeq == 2              \* results an enrichment agent may give (SpecInfo)
MaxCalls == 4            \* calls of the transcriber's client (SpecVoice)

\* --------------------------------------------------------------- constants
Sessions == {"s1", "s2"}
Subs == {"orchestrator_main", "orchestrator_aggregator"}
Main == "orchestrator_main"
Aggregator == "orchestrator_aggregator"

\* AgentStatus (orchestrator.py:21-25)
IDLE == "idle"
WORKING == "working"
COMPLETED == "completed"
ERROR == "error"

Agents == {"entity_extractor", "company_profile", "company_news",
           "market_competitor", "person_enrichment",
           "suggestion_generator", "ranking_agent"}

VARIABLES
  up,               \* the Redis server is reachable
  redis_client,     \* EventBus.redis_client is set
  running,          \* EventBus.running
  transcripts,      \* stream meeting:transcripts
  entities,         \* stream meeting:entities
  domain_responses, \* stream meeting:domain_responses
  suggestions,      \* stream meeting:suggestions
  agent_status,     \* stream meeting:agent_status, as a bag of entries
  groups,           \* consumer groups that exist, one per subscription
  cursor,           \* per group: last-delivered position ('>' reads after it)
  pending,          \* per group: delivered, not acknowledged (the PEL)
  acked,            \* per group: positions acknowledged with XACK
  pc,               \* per subscription task: position in subscribe()
  cur,              \* per subscription task: position of the entry in hand
  agent_statuses,   \* EnhancedOrchestrator.agent_statuses
  session_contexts, \* EnhancedOrchestrator.session_contexts
  task,             \* coroutines of the fragment in hand: 0 is the handler's
                    \* own readiness check, 1..n the jobs given to gather
  polls,            \* per subscription task: parity of its empty reads
  hres,             \* per transcript entry: how its last delivery ended
  deliveries,       \* per transcript entry: times XREADGROUP returned it
  connect_result,   \* what the connect() of start() returned
  closed,           \* EventBus.close() has been called
  publish_ret,      \* what the last publish() of a producer returned
  fn_arg,           \* argument of the function under check
  fn_ret,           \* what it returned
  fn_pc,            \* "none", "call" before and "ret" after its call
  transcriber,      \* the fields of the AssemblyAIRealtimeTranscriber
  devices,          \* what the transcriber holds outside itself: PyAudio
                    \* instances, audio streams, the socket, the audio thread
  voice_call        \* the last call of the transcriber's client and the
                    \* number of its calls so far

vars == <<up, redis_client, running, transcripts, entities, domain_responses,
          suggestions, agent_status, groups, cursor, pending, acked, pc, cur,
          agent_statuses, session_contexts, task, polls, hres, deliveries,
          connect_result, closed, publish_ret, fn_arg, fn_ret, fn_pc,
          transcriber, devices, voice_call>>

netVars == <<connect_result, closed, publish_ret>>
fnVars == <<fn_arg, fn_ret, fn_pc>>
voiceVars == <<transcriber, devices, voice_call>>
progVars == <<voiceVars, up, redis_client, running, transcripts, entities,
              domain_responses, suggestions, agent_status, groups, cursor,
              pending, acked, pc, cur, agent_statuses, session_contexts, task,
              polls, hres, deliveries, netVars>>
busVars == <<groups, cursor, pending, acked>>
streamVars == <<transcripts, entities, domain_responses, suggestions,
                agent_status>>

\* ----------------------------------------------------------------- helpers
\* an empty dict
EmptyMap == [i \in {} |-> 0]

\* ------------------------------------------------------ entity extraction
\* InfoExtractionAgent.process_text is a deterministic function of the text
\* (a spaCy pipeline); each text stands for one kind of outcome.
process_text(text) ==
  CASE text = "tOrg" -> <<[name |-> "Acme", type |-> "ORG"]>>
    [] text = "tPer" -> <<[name |-> "Bob", type |-> "PERSON"]>>
    [] text = "tTwo" -> <<[name |-> "Bob", type |-> "PERSON"],
                          [name |-> "Eve", type |-> "PERSON"]>>
    [] OTHER -> <<>>

\* process_text raises on some inputs (e.g. tok.nbor(1) past the end of the
\* document raises IndexError, entityExtractor.py:100).
process_text_raises(text) == text = "tBad"

\* ------------------------------------------------------------ fan-out plan
\* variant of JobsOfCompany: no news job for a company
JobsOfCompanyNoNews(name) ==
  << [agent |-> "company_profile", entity |-> name],
     [agent |-> "market_competitor", entity |-> name] >>

\* _trigger_domain_intelligence, lines 147-177: the coroutines it creates, in
\* order.
JobsOfCompany(name) ==
  << [agent |-> "company_profile", entity |-> name],
     [agent |-> "company_news", entity |-> name],
     [agent |-> "market_competitor", entity |-> name] >>

JobsOfPerson(name) == << [agent |-> "person_enrichment", entity |-> name] >>

RECURSIVE CompanyJobs(_)
CompanyJobs(ents) ==
  IF ents = <<>> THEN <<>>
  ELSE (IF Head(ents).type = "ORG" THEN JobsOfCompany(Head(ents).name)
        ELSE <<>>) \o CompanyJobs(Tail(ents))

RECURSIVE PersonJobs(_)
PersonJobs(ents) ==
  IF ents = <<>> THEN <<>>
  ELSE (IF Head(ents).type = "PERSON" THEN JobsOfPerson(Head(ents).name)
        ELSE <<>>) \o PersonJobs(Tail(ents))

PlanJobs(ents) == CompanyJobs(ents) \o PersonJobs(ents)

\* jobs the entries of the transcripts stream will schedule (for the bound)
RECURSIVE PlannedJobs(_)
PlannedJobs(log) ==
  IF log = <<>> THEN 0
  ELSE (IF Head(log).wire = "ok" /\ ~process_text_raises(Head(log).text)
        THEN Len(PlanJobs(process_text(Head(log).text))) ELSE 0)
       + PlannedJobs(Tail(log))

\* ------------------------------------------------------------ EventBus
\* EventBus.connect, lines 55-64: the client object is made, then PING tells
\* whether the server answers
connect == IF up THEN "ok" ELSE "failed"

\* variant of publish: the entry is kept and appended whatever the transport
publish_buffered(stream, event) == Append(stream, event)

\* EventBus.publish, lines 66-87: the entry is appended iff the client is set
\* and XADD succeeds; otherwise False is returned and nothing is appended.
CanPublish == redis_client /\ up

publish(stream, event) == IF CanPublish THEN Append(stream, event) ELSE stream

\* what publish returns: the id of the new entry (its position), or False
False == 0
NoReturn == -1
publish_returns(stream) == IF CanPublish THEN Len(stream) + 1 ELSE False

\* the agent_status stream keeps its entries as a bag
publishAll(stream, evbag) == IF CanPublish THEN stream (+) evbag ELSE stream

StatusEvent(agent, status, sid) ==
  [agent_name |-> agent, status |-> status, session_id |-> sid]

\* variant of update_agent_status: the table records the status only when
\* the broadcast went out
update_agent_status_sent(agent, status, sid) ==
  /\ agent_statuses' =
       IF CanPublish THEN [agent_statuses EXCEPT ![agent] = status]
       ELSE agent_statuses
  /\ agent_status' =
       publishAll(agent_status, SetToBag({StatusEvent(agent, status, sid)}))

\* _update_agent_status, lines 459-480
update_agent_status(agent, status, sid) ==
  /\ agent_statuses' = [agent_statuses EXCEPT ![agent] = status]
  /\ agent_status' =
       publishAll(agent_status, SetToBag({StatusEvent(agent, status, sid)}))

\* ------------------------------------------------------------ RankingAgent
\* A suggestion is [id, confidenceScore, rank, ranking_confidence]; rank 0
\* stands for "the keys rank / ranking_confidence are absent".  Scores and
\* confidences are in hundredths.  NonNumeric stands for a confidence the LLM
\* returned as a JSON string.
NonNumeric == -1

Suggestion(id, score) ==
  [id |-> id, confidenceScore |-> score, rank |-> 0, ranking_confidence |-> 0]

Max(a, b) == IF a >= b THEN a ELSE b

\* position list of s in the order sorted(s, key=confidenceScore,
\* reverse=True) gives: descending, equal keys keep their input order
RECURSIVE InsertDesc(_, _, _)
InsertDesc(s, i, order) ==
  IF order = <<>> THEN <<i>>
  ELSE IF s[Head(order)].confidenceScore >= s[i].confidenceScore
       THEN <<Head(order)>> \o InsertDesc(s, i, Tail(order))
       ELSE <<i>> \o order

RECURSIVE SortedOrder(_, _)
SortedOrder(s, n) ==
  IF n = 0 THEN <<>> ELSE InsertDesc(s, n, SortedOrder(s, n - 1))

\* ranking_agent.py:51
RankingConfidence(i) == Max(90 - (i - 1) * 10, 50)

\* variant of rank_suggestions: the list is numbered as it came
rank_suggestions_unsorted(s) ==
  [i \in 1..Len(s) |->
     [s[i] EXCEPT !.rank = i, !.ranking_confidence = RankingConfidence(i)]]

\* rank_suggestions, lines 24-53: the ranked list
rank_suggestions(s) ==
  LET order == SortedOrder(s, Len(s))
  IN [i \in 1..Len(s) |->
        [s[order[i]] EXCEPT !.rank = i,
                            !.ranking_confidence = RankingConfidence(i)]]

\* lines 49-51 write rank and ranking_confidence into the dicts of the input
\* list (sorted() copies the list, not the dicts): the input list afterwards
InputAfterRanking(s) ==
  LET order == SortedOrder(s, Len(s))
      pos(j) == CHOOSE i \in 1..Len(s) : order[i] = j
  IN [j \in 1..Len(s) |->
        [s[j] EXCEPT !.rank = pos(j),
                     !.ranking_confidence = RankingConfidence(pos(j))]]

\* sorted() raises TypeError when a string key meets a number key
rank_raises(s) ==
  \E i, j \in 1..Len(s) : /\ s[i].confidenceScore = NonNumeric
                          /\ s[j].confidenceScore # NonNumeric

\* ------------------------------------------------- SuggestionGeneratorAgent
\* generate_suggestions, lines 124-201: what the call returns.
\*   "llm"      the LLM answered with two suggestions (lines 140-178)
\*   "mixed"    as "llm", one confidence is a JSON string
\*   "fallback" the LLM call or the parse raised: lines 180-201
SynthOutcomes == {"llm", "mixed", "fallback"}

generate_suggestions(outcome) ==
  CASE outcome = "llm" ->
         << Suggestion("intelligent_response_0", 40),
            Suggestion("intelligent_response_1", 90) >>
    [] outcome = "mixed" ->
         << Suggestion("intelligent_response_0", NonNumeric),
            Suggestion("intelligent_response_1", 90) >>
    [] OTHER -> << Suggestion("fallback", 70) >>

\* ------------------------------------------------------- session contexts
\* orchestrator.py:114-120.  suggestions_ref names the list object held in
\* 'suggestions': the position in provenance_chain of the synthesis entry
\* whose outputs are that same list (0: the initial empty list).
NewContext ==
  [entities |-> <<>>, domain_data |-> EmptyMap, suggestions |-> <<>>,
   suggestions_ref |-> 0, provenance_chain |-> <<>>,
   transcript_history |-> <<>>]

Provenance(agent, inputs, outputs) ==
  [agent_id |-> agent, inputs |-> inputs, outputs |-> outputs]

\* orchestrator.py:371, 393: the inputs of a synthesis entry hold, under
\* domain_info['raw_data'], the very dict session_contexts[sid]['domain_data'];
\* the chain as it reads once that dict has become dd
AliasRawData(chain, dd) ==
  [i \in DOMAIN chain |->
     IF chain[i].agent_id = "suggestion_generator"
     THEN [chain[i] EXCEPT !.inputs.raw_data = dd]
     ELSE chain[i]]

\* the (entity, job_kind) slots of a domain_data map
Slots(dd) == {<<e, k>> \in (DOMAIN dd) \X Agents : k \in DOMAIN dd[e]}

\* variant of StoreSlot: the write keeps the entity it is for and drops the
\* other entities
StoreSlotOneEntity(dd, entity, kind, result) ==
  [e \in {entity} |->
     [k \in (IF e \in DOMAIN dd THEN DOMAIN dd[e] ELSE {}) \cup {kind} |->
        IF k = kind THEN result ELSE dd[e][k]]]

\* variant of StoreSlot: the write replaces what the session had stored
StoreSlotAlone(dd, entity, kind, result) ==
  [e \in {entity} |-> [k \in {kind} |-> result]]

\* _store_domain_data, lines 312-315
StoreSlot(dd, entity, kind, result) ==
  [e \in DOMAIN dd \cup {entity} |->
     IF e = entity
     THEN [k \in (IF e \in DOMAIN dd THEN DOMAIN dd[e] ELSE {}) \cup {kind} |->
             IF k = kind THEN result ELSE dd[e][k]]
     ELSE dd[e]]

\* variant of Ready: evidence in two slots is asked for
ReadyTwoSlots(dd) == Cardinality(Slots(dd)) >= 2

\* _check_suggestion_readiness, line 349
Ready(dd) == DOMAIN dd # {} /\ \E e \in DOMAIN dd : DOMAIN dd[e] # {}

\* variant of Transpose: the dict of a job kind is made anew for every
\* entity, so that it holds one entity only
TransposeLastEntity(dd) ==
  LET kinds == {sl[2] : sl \in Slots(dd)}
      last(k) == CHOOSE e \in DOMAIN dd : k \in DOMAIN dd[e]
  IN [k \in kinds |-> [e \in {last(k)} |-> dd[e][k]]]

\* _generate_suggestions, lines 361-368: domain_data transposed
Transpose(dd) ==
  LET kinds == {sl[2] : sl \in Slots(dd)}
  IN [k \in kinds |->
        [e \in {x \in DOMAIN dd : k \in DOMAIN dd[x]} |-> dd[e][k]]]

\* _generate_suggestions, lines 360-371: domain_info, the transposed
\* domain_data with the nested structure itself under the key raw_data
DomainInfo(dd) ==
  [k \in DOMAIN Transpose(dd) \cup {"raw_data"} |->
     IF k = "raw_data" THEN dd ELSE Transpose(dd)[k]]

\* ---------------------------------------------------------------- Init
InitProgram ==
  /\ up = TRUE
  /\ redis_client = FALSE
  /\ running = FALSE
  /\ transcripts = <<>>
  /\ entities = <<>>
  /\ domain_responses = <<>>
  /\ suggestions = <<>>
  /\ agent_status = EmptyBag
  /\ groups = {}
  /\ cursor = [s \in Subs |-> 0]
  /\ pending = [s \in Subs |-> {}]
  /\ acked = [s \in Subs |-> {}]
  /\ pc = [s \in Subs |-> "init"]
  /\ cur = [s \in Subs |-> 0]
  /\ agent_statuses = [a \in Agents |-> IDLE]
  /\ session_contexts = EmptyMap
  /\ task = EmptyMap
  /\ polls = [s \in Subs |-> 0]
  /\ hres = <<>>
  /\ deliveries = <<>>
  /\ connect_result = "none"
  /\ closed = FALSE
  /\ publish_ret = NoReturn
  /\ transcriber =   \* voice.py:35-44: nothing made yet, both flags False
       [audio |-> FALSE, stream |-> FALSE, ws_app |-> FALSE,
        audio_thread |-> FALSE, stop_event |-> FALSE, is_running |-> FALSE,
        is_cleaning_up |-> FALSE]
  /\ devices =       \* nothing is held before the first start
       [handles |-> 0, streams |-> 0, sock |-> "none", thread_alive |-> FALSE]
  /\ voice_call = [op |-> "none", outcome |-> "none", calls |-> 0]

Init ==
  /\ InitProgram
  /\ fn_arg = <<>>
  /\ fn_ret = <<>>
  /\ fn_pc = "none"

\* ----------------------------------------------------- start and producers
\* EnhancedOrchestrator.start, lines 54-79: connect() sets redis_client (its
\* result is not looked at), start_listening() sets running, two subscription
\* tasks are created.
Start ==
  /\ \A s \in Subs : pc[s] = "init"
  /\ redis_client' = TRUE
  /\ connect_result' = connect
  /\ running' = TRUE
  /\ pc' = [s \in Subs |-> "sub"]
  /\ UNCHANGED <<voiceVars, fnVars, closed, publish_ret, polls, up, streamVars, busVars, cur, agent_statuses,
                 session_contexts, task, hres, deliveries>>

\* main.py:174 publishes a transcript fragment through EventBus.publish
PublishTranscript(sid, text, budget) ==
  /\ CanPublish
  /\ Len(transcripts) < MaxTranscripts
  /\ LET entry == [session_id |-> sid, text |-> text, wire |-> "ok"]
     IN /\ PlannedJobs(Append(transcripts, entry)) <= budget
        /\ transcripts' = publish(transcripts, entry)
  /\ publish_ret' = publish_returns(transcripts)
  /\ hres' = Append(hres, "none")
  /\ deliveries' = Append(deliveries, 0)
  /\ UNCHANGED <<voiceVars, fnVars, connect_result, closed, polls, up, redis_client, running, entities, domain_responses,
                 suggestions, agent_status, busVars, pc, cur, agent_statuses,
                 session_contexts, task>>

\* another writer of the stream appends an entry the read loop cannot decode
\* (a field is missing or 'data' is not JSON)
PublishUndecodable(sid) ==
  /\ up
  /\ Len(transcripts) < MaxTranscripts
  /\ transcripts' =
       Append(transcripts, [session_id |-> sid, text |-> "", wire |-> "bad"])
  /\ hres' = Append(hres, "none")
  /\ deliveries' = Append(deliveries, 0)
  /\ UNCHANGED <<voiceVars, fnVars, netVars, polls, up, redis_client, running, entities, domain_responses,
                 suggestions, agent_status, busVars, pc, cur, agent_statuses,
                 session_contexts, task>>

\* ------------------------------------------------------ EventBus.subscribe
StreamOf(sub) == IF sub = Main THEN transcripts ELSE domain_responses

\* variant of Subscribe: creating the group again puts its cursor back to the
\* start of the log and empties its pending list
SubscribeResets(sub) ==
  /\ pc[sub] = "sub"
  /\ IF ~redis_client
     THEN /\ pc' = [pc EXCEPT ![sub] = "exit"]
          /\ UNCHANGED <<groups, cursor, pending>>
     ELSE /\ groups' = IF up THEN groups \cup {sub} ELSE groups
          /\ cursor' = IF up THEN [cursor EXCEPT ![sub] = 0] ELSE cursor
          /\ pending' = IF up THEN [pending EXCEPT ![sub] = {}] ELSE pending
          /\ pc' = [pc EXCEPT ![sub] = "read"]
  /\ UNCHANGED <<voiceVars, fnVars, netVars, polls, up, redis_client, running,
                 streamVars, acked, cur, agent_statuses, session_contexts,
                 task, hres, deliveries>>

\* lines 91-102: return without a client; XGROUP CREATE ... id='0' makes the
\* group when it is missing, and the error of an existing group is passed
Subscribe(sub) ==
  /\ pc[sub] = "sub"
  /\ IF ~redis_client
     THEN /\ pc' = [pc EXCEPT ![sub] = "exit"]
          /\ UNCHANGED groups
     ELSE /\ groups' = IF up THEN groups \cup {sub} ELSE groups
          /\ pc' = [pc EXCEPT ![sub] = "read"]
  /\ UNCHANGED <<voiceVars, fnVars, netVars, polls, up, redis_client, running, streamVars, cursor, pending,
                 acked, cur, agent_statuses, session_contexts, task, hres,
                 deliveries>>

\* lines 104-109: XREADGROUP ... {stream: '>'} count=1 returns the first entry
\* never delivered to the group and puts it in the pending list.  With no
\* such entry the call returns empty after the block time and the loop reads
\* again (a stuttering step).
Read(sub) ==
  /\ pc[sub] = "read"
  /\ running
  /\ up
  /\ sub \in groups
  /\ cursor[sub] < Len(StreamOf(sub))
  /\ LET m == cursor[sub] + 1
     IN /\ cursor' = [cursor EXCEPT ![sub] = m]
        /\ pending' = [pending EXCEPT ![sub] = @ \cup {m}]
        /\ cur' = [cur EXCEPT ![sub] = m]
        /\ deliveries' = IF sub = Main
                         THEN [deliveries EXCEPT ![m] = @ + 1]
                         ELSE deliveries
  /\ pc' = [pc EXCEPT ![sub] = "deliv"]
  /\ UNCHANGED <<voiceVars, fnVars, netVars, polls, up, redis_client, running, streamVars, groups, acked,
                 agent_statuses, session_contexts, task, hres>>

\* lines 104-111: XREADGROUP returns nothing after its block time (no entry
\* was ever left undelivered: '>' never returns an entry of the pending
\* list) and the loop reads again
ReadEmpty(sub) ==
  /\ pc[sub] = "read"
  /\ running
  /\ up
  /\ sub \in groups
  /\ cursor[sub] = Len(StreamOf(sub))
  /\ polls' = [polls EXCEPT ![sub] = 1 - @]
  /\ UNCHANGED <<voiceVars, fnVars, netVars, up, redis_client, running, streamVars,
                 busVars, pc, cur, agent_statuses, session_contexts, task,
                 hres, deliveries>>

\* lines 113-127 with callback = _handle_domain_response_event (lines
\* 334-337, which only logs): decode, handler, XACK
HandleDomainResponse ==
  /\ pc[Aggregator] = "deliv"
  /\ IF up
     THEN /\ pending' = [pending EXCEPT ![Aggregator] = @ \ {cur[Aggregator]}]
          /\ acked' = [acked EXCEPT ![Aggregator] = @ \cup {cur[Aggregator]}]
     ELSE UNCHANGED <<pending, acked>>
  /\ pc' = [pc EXCEPT ![Aggregator] = "read"]
  /\ UNCHANGED <<voiceVars, fnVars, netVars, polls, up, redis_client, running, streamVars, groups, cursor, cur,
                 agent_statuses, session_contexts, task, hres, deliveries>>

\* the transcript entry in the hands of orchestrator_main
Msg == transcripts[cur[Main]]
\* variant of Sid: one context is used for the fragments of every session
SidShared == "s1"
Sid == Msg.session_id

\* variant of LogError: the entry is acknowledged although its delivery failed
LogErrorAcks(how) ==
  /\ hres' = [hres EXCEPT ![cur[Main]] = how]
  /\ pc' = [pc EXCEPT ![Main] = "read"]
  /\ pending' = [pending EXCEPT ![Main] = @ \ {cur[Main]}]
  /\ acked' = [acked EXCEPT ![Main] = @ \cup {cur[Main]}]

\* variant of LogError: the exception ends the subscription
LogErrorStops(how) ==
  /\ hres' = [hres EXCEPT ![cur[Main]] = how]
  /\ pc' = [pc EXCEPT ![Main] = "exit"]
  /\ UNCHANGED <<pending, acked>>

\* lines 129-130: an exception of the decode or of the handler is logged; the
\* entry stays in the pending list and the loop reads on
LogError(how) ==
  /\ hres' = [hres EXCEPT ![cur[Main]] = how]
  /\ pc' = [pc EXCEPT ![Main] = "read"]
  /\ UNCHANGED <<pending, acked>>

\* lines 113-130 with callback = _handle_transcript_event: the Event is
\* decoded; a decode error is logged and the loop goes on (no XACK).
\* Otherwise the handler runs up to its first await (orchestrator.py:90).
Dispatch ==
  /\ pc[Main] = "deliv"
  /\ IF Msg.wire = "bad"
     THEN /\ LogError("undecodable")
          /\ UNCHANGED <<agent_statuses, agent_status>>
     ELSE /\ update_agent_status("entity_extractor", WORKING, Sid)
          /\ pc' = [pc EXCEPT ![Main] = "extract"]
          /\ UNCHANGED <<hres, pending, acked>>
  /\ UNCHANGED <<voiceVars, fnVars, netVars, polls, up, redis_client, running, transcripts, entities,
                 domain_responses, suggestions, groups, cursor, cur,
                 session_contexts, task, deliveries>>

\* variant of ContextFor: every delivery starts from a new context
ContextForFresh(sid) == NewContext

\* variant of ContextFor: the chain of the session starts anew with every
\* fragment
ContextForNewChain(sid) ==
  IF sid \in DOMAIN session_contexts
  THEN [session_contexts[sid] EXCEPT !.provenance_chain = <<>>]
  ELSE NewContext

\* orchestrator.py:113-120: the context of the session, made when missing
ContextFor(sid) ==
  IF sid \in DOMAIN session_contexts THEN session_contexts[sid]
  ELSE NewContext

\* variant of AddTranscript: the fragment is put in front of the history
AddTranscriptFirst(history, text) == <<text>> \o history

\* orchestrator.py:123
AddTranscript(history, text) == Append(history, text)

\* variant of Extract: the exception of the extraction leaves the read loop
ExtractUncaught ==
  /\ pc[Main] = "extract"
  /\ IF process_text_raises(Msg.text)
     THEN /\ hres' = [hres EXCEPT ![cur[Main]] = "raised"]
          /\ pc' = [pc EXCEPT ![Main] = "exit"]
          /\ UNCHANGED <<pending, acked>>
          /\ UNCHANGED <<agent_statuses, agent_status, session_contexts>>
     ELSE /\ LET ents == process_text(Msg.text)
                 old == ContextFor(Sid)
                 new == [old EXCEPT
                           !.transcript_history = AddTranscript(@, Msg.text),
                           !.entities = ents,
                           !.provenance_chain =
                              Append(@, Provenance("entity_extractor",
                                                   Msg.text, ents))]
             IN session_contexts' =
                  [s \in DOMAIN session_contexts \cup {Sid} |->
                     IF s = Sid THEN new ELSE session_contexts[s]]
          /\ update_agent_status("entity_extractor", COMPLETED, Sid)
          /\ pc' = [pc EXCEPT ![Main] = "fanout"]
          /\ UNCHANGED <<hres, pending, acked>>
  /\ UNCHANGED <<voiceVars, fnVars, netVars, polls, up, redis_client, running, transcripts, entities,
                 domain_responses, suggestions, groups, cursor, cur, task,
                 deliveries>>

\* orchestrator.py:93-128.  process_text is called on the event loop itself;
\* when it raises, the exception leaves the handler and is logged by the read
\* loop (event_bus.py:129-130): no XACK, no status update.
Extract ==
  /\ pc[Main] = "extract"
  /\ IF process_text_raises(Msg.text)
     THEN /\ LogError("raised")
          /\ UNCHANGED <<agent_statuses, agent_status, session_contexts>>
     ELSE /\ LET ents == process_text(Msg.text)
                 old == ContextFor(Sid)
                 new == [old EXCEPT
                           !.transcript_history = AddTranscript(@, Msg.text),
                           !.entities = ents,
                           !.provenance_chain =
                              Append(@, Provenance("entity_extractor",
                                                   Msg.text, ents))]
             IN session_contexts' =
                  [s \in DOMAIN session_contexts \cup {Sid} |->
                     IF s = Sid THEN new ELSE session_contexts[s]]
          /\ update_agent_status("entity_extractor", COMPLETED, Sid)
          /\ pc' = [pc EXCEPT ![Main] = "fanout"]
          /\ UNCHANGED <<hres, pending, acked>>
  /\ UNCHANGED <<voiceVars, fnVars, netVars, polls, up, redis_client, running, transcripts, entities,
                 domain_responses, suggestions, groups, cursor, cur, task,
                 deliveries>>

\* ------------------------------------------------------------ fan-out
\* A coroutine of the fragment in hand.  pc: "call" (enrichment call in a
\* worker thread), "stored", "synW", "synCall" (synthesis call in a worker
\* thread), "synDone", "rankCall" (ranking call in a worker thread),
\* "ranked", "tail", "done".  result, syn, rank record how the three
\* collaborator calls of the coroutine ended; value is what the enrichment
\* call returned (result = "ok"); list is its local variable
\* 'suggestions'; syn_idx is the position of its synthesis entry in
\* provenance_chain; snap is what it handed to the synthesis call.
NewTask(agent, entity, at) ==
  [agent |-> agent, entity |-> entity, pc |-> at, result |-> "none",
   value |-> EmptyMap, snap |-> EmptyMap, list |-> <<>>, syn_idx |-> 0, syn |-> "none",
   rank |-> "none"]

EntitiesEvent ==
  [type |-> "entities_extracted", session_id |-> Sid,
   entities |-> process_text(Msg.text), pos |-> cur[Main]]

Context(sid) == session_contexts[sid]

\* variant of Fanout: without jobs readiness is not looked at
FanoutSkipsReadiness ==
  /\ pc[Main] = "fanout"
  /\ LET plan == PlanJobs(process_text(Msg.text))
     IN IF plan # <<>>
        THEN /\ task' = [i \in 1..Len(plan) |->
                           NewTask(plan[i].agent, plan[i].entity, "call")]
             /\ agent_statuses' =
                  [a \in Agents |->
                     IF \E i \in 1..Len(plan) : plan[i].agent = a
                     THEN WORKING ELSE agent_statuses[a]]
             /\ agent_status' =
                  publishAll(agent_status,
                    [ev \in {StatusEvent(plan[i].agent, WORKING, Sid) :
                               i \in 1..Len(plan)} |->
                       Cardinality({i \in 1..Len(plan) :
                                      plan[i].agent = ev.agent_name})])
             /\ pc' = [pc EXCEPT ![Main] = "join"]
             /\ UNCHANGED entities
        ELSE /\ entities' = publish(entities, EntitiesEvent)
             /\ pc' = [pc EXCEPT ![Main] = "ack"]
             /\ UNCHANGED <<task, agent_statuses, agent_status>>
  /\ UNCHANGED <<voiceVars, fnVars, netVars, polls, up, redis_client, running, transcripts, domain_responses,
                 suggestions, busVars, cur, session_contexts, hres,
                 deliveries>>

\* _trigger_domain_intelligence, lines 147-187.  With jobs, gather() makes
\* them tasks and each runs up to its first await, i.e. marks its agent
\* WORKING (lines 191, 230, 256, 282).  Without jobs readiness is checked in
\* the handler itself (task 0), and when it is not ready the handler goes on
\* to publish entities_extracted (lines 135-143).
Fanout ==
  /\ pc[Main] = "fanout"
  /\ LET plan == PlanJobs(process_text(Msg.text))
     IN IF plan # <<>>
        THEN /\ task' = [i \in 1..Len(plan) |->
                           NewTask(plan[i].agent, plan[i].entity, "call")]
             /\ agent_statuses' =
                  [a \in Agents |->
                     IF \E i \in 1..Len(plan) : plan[i].agent = a
                     THEN WORKING ELSE agent_statuses[a]]
             /\ agent_status' =
                  publishAll(agent_status,
                    [ev \in {StatusEvent(plan[i].agent, WORKING, Sid) :
                               i \in 1..Len(plan)} |->
                       Cardinality({i \in 1..Len(plan) :
                                      plan[i].agent = ev.agent_name})])
             /\ pc' = [pc EXCEPT ![Main] = "join"]
             /\ UNCHANGED entities
        ELSE IF /\ Sid \in DOMAIN session_contexts
                /\ Ready(Context(Sid).domain_data)
             THEN /\ update_agent_status("suggestion_generator", WORKING, Sid)
                  /\ task' = [i \in {0} |-> NewTask("", "", "synW")]
                  /\ pc' = [pc EXCEPT ![Main] = "join"]
                  /\ UNCHANGED entities
             ELSE /\ entities' = publish(entities, EntitiesEvent)
                  /\ pc' = [pc EXCEPT ![Main] = "ack"]
                  /\ UNCHANGED <<task, agent_statuses, agent_status>>
  /\ UNCHANGED <<voiceVars, fnVars, netVars, polls, up, redis_client, running, transcripts, domain_responses,
                 suggestions, busVars, cur, session_contexts, hres,
                 deliveries>>

\* what an enrichment collaborator returns (companyNews.py:129-136 and the
\* like): a non-empty record; seq tells the results of different fragments
\* apart
Result(agent, entity) ==
  [event |-> agent, name |-> entity, seq |-> cur[Main]]

\* variant of JobRaised: the except branch looks at readiness as a write does
JobRaisedChecksReady(i) ==
  /\ IF /\ Sid \in DOMAIN session_contexts
        /\ Ready(Context(Sid).domain_data)
     THEN /\ update_agent_status("suggestion_generator", WORKING, Sid)
          /\ task' = [task EXCEPT ![i].pc = "synW", ![i].result = "raised"]
     ELSE /\ update_agent_status(task[i].agent, ERROR, Sid)
          /\ task' = [task EXCEPT ![i].pc = "done", ![i].result = "raised"]
  /\ UNCHANGED <<session_contexts, domain_responses>>

\* variant of JobRaised: the failure is stored as the result of the slot
JobRaisedStores(i) ==
  /\ update_agent_status(task[i].agent, ERROR, Sid)
  /\ task' = [task EXCEPT ![i].pc = "done", ![i].result = "raised"]
  /\ session_contexts' =
       [session_contexts EXCEPT
          ![Sid].domain_data =
             StoreSlot(@, task[i].entity, task[i].agent,
                       Result("error", task[i].entity))]
  /\ UNCHANGED domain_responses

\* the except branch of a job, lines 221-226 and the like: the agent is
\* marked ERROR, nothing is stored
JobRaised(i) ==
  /\ update_agent_status(task[i].agent, ERROR, Sid)
  /\ task' = [task EXCEPT ![i].pc = "done", ![i].result = "raised"]
  /\ UNCHANGED <<session_contexts, domain_responses>>

\* _run_company_profile_agent / _run_company_news_agent /
\* _run_market_competitor_agent / _run_person_enrichment_agent after the
\* worker thread returned, lines 202-226 and the like, with
\* _store_domain_data lines 308-329 up to its publish.
JobReturn(i, raised) ==
  /\ i \in DOMAIN task /\ i # 0
  /\ task[i].pc = "call"
  /\ IF raised
     THEN JobRaised(i)
     ELSE LET r == Result(task[i].agent, task[i].entity)
          IN IF Sid \notin DOMAIN session_contexts
             THEN /\ update_agent_status(task[i].agent, COMPLETED, Sid)
                  /\ task' = [task EXCEPT ![i].pc = "done",
                                          ![i].result = "ok", ![i].value = r]
                  /\ UNCHANGED <<session_contexts, domain_responses>>
             ELSE /\ session_contexts' =
                       [session_contexts EXCEPT
                          ![Sid].domain_data =
                             StoreSlot(@, task[i].entity, task[i].agent, r),
                          ![Sid].provenance_chain =
                             Append(AliasRawData(@,
                                      StoreSlot(Context(Sid).domain_data,
                                                task[i].entity,
                                                task[i].agent, r)),
                                    Provenance(task[i].agent,
                                               task[i].entity, r))]
                  /\ domain_responses' =
                       publish(domain_responses,
                               [type |-> "domain_data_ready",
                                session_id |-> Sid,
                                agent_id |-> task[i].agent,
                                entity_name |-> task[i].entity,
                                pos |-> cur[Main]])
                  /\ task' = [task EXCEPT ![i].pc = "stored",
                                          ![i].result = "ok", ![i].value = r]
                  /\ UNCHANGED <<agent_statuses, agent_status>>
  /\ UNCHANGED <<voiceVars, fnVars, netVars, polls, up, redis_client, running, transcripts, entities,
                 suggestions, busVars, pc, cur, hres, deliveries>>

\* variant of CheckReady: one synthesis per batch, started by the first write
CheckReadyOnce(i) ==
  /\ i \in DOMAIN task /\ i # 0
  /\ task[i].pc = "stored"
  /\ IF /\ Sid \in DOMAIN session_contexts
        /\ Ready(Context(Sid).domain_data)
        /\ \A j \in DOMAIN task :
              task[j].pc \in {"call", "stored", "done"} /\ task[j].syn = "none"
     THEN /\ update_agent_status("suggestion_generator", WORKING, Sid)
          /\ task' = [task EXCEPT ![i].pc = "synW"]
     ELSE /\ update_agent_status(task[i].agent, COMPLETED, Sid)
          /\ task' = [task EXCEPT ![i].pc = "done"]
  /\ UNCHANGED <<voiceVars, fnVars, netVars, polls, up, redis_client, running, transcripts, entities,
                 domain_responses, suggestions, busVars, pc, cur,
                 session_contexts, hres, deliveries>>

\* _store_domain_data line 332 with _check_suggestion_readiness, lines
\* 341-350, and _generate_suggestions line 354; when not ready the job goes
\* on to mark its agent COMPLETED (line 219 and the like)
CheckReady(i) ==
  /\ i \in DOMAIN task /\ i # 0
  /\ task[i].pc = "stored"
  /\ IF /\ Sid \in DOMAIN session_contexts
        /\ Ready(Context(Sid).domain_data)
     THEN /\ update_agent_status("suggestion_generator", WORKING, Sid)
          /\ task' = [task EXCEPT ![i].pc = "synW"]
     ELSE /\ update_agent_status(task[i].agent, COMPLETED, Sid)
          /\ task' = [task EXCEPT ![i].pc = "done"]
  /\ UNCHANGED <<voiceVars, fnVars, netVars, polls, up, redis_client, running, transcripts, entities,
                 domain_responses, suggestions, busVars, pc, cur,
                 session_contexts, hres, deliveries>>

\* _generate_suggestions, lines 357-382: domain_info is built and handed to
\* the worker thread.  by_category is a new dict; raw_data is the very dict
\* session_contexts[sid]['domain_data'], kept here as its value at the call.
SynthStart(t) ==
  /\ t \in DOMAIN task
  /\ task[t].pc = "synW"
  /\ task' = [task EXCEPT
                ![t].pc = "synCall",
                ![t].snap =
                   [by_category |-> Transpose(Context(Sid).domain_data),
                    raw_data |-> Context(Sid).domain_data,
                    utterances |-> Context(Sid).transcript_history]]
  /\ UNCHANGED <<voiceVars, fnVars, netVars, polls, up, redis_client, running, streamVars, busVars, pc, cur,
                 agent_statuses, session_contexts, hres, deliveries>>

\* The worker thread serialises domain_info, raw_data included, outside the
\* try block of generate_suggestions (suggestion_agent.py:98).  When the
\* event loop adds a slot to domain_data meanwhile, json.dumps may raise
\* "dictionary changed size during iteration" and the call raises.
SynthMayRaise(t) ==
  Slots(Context(Sid).domain_data) # Slots(task[t].snap.raw_data)

\* _generate_suggestions after the worker thread returned, lines 383-404, or
\* raised, lines 409-411
SynthReturn(t, outcome) ==
  /\ t \in DOMAIN task
  /\ task[t].pc = "synCall"
  /\ IF outcome = "raised"
     THEN /\ SynthMayRaise(t)
          /\ update_agent_status("suggestion_generator", ERROR, Sid)
          /\ task' = [task EXCEPT ![t].pc = "tail", ![t].syn = "raised"]
          /\ UNCHANGED session_contexts
     ELSE LET list == generate_suggestions(outcome)
              at == Len(Context(Sid).provenance_chain) + 1
          IN /\ session_contexts' =
                  [session_contexts EXCEPT
                     ![Sid].suggestions = list,
                     ![Sid].suggestions_ref = at,
                     ![Sid].provenance_chain =
                        Append(@, Provenance("suggestion_generator",
                                 [by_category |-> task[t].snap.by_category,
                                  raw_data |-> Context(Sid).domain_data,
                                  utterances |-> task[t].snap.utterances],
                                 list))]
             /\ update_agent_status("suggestion_generator", COMPLETED, Sid)
             /\ task' = [task EXCEPT ![t].pc = "synDone", ![t].syn = outcome,
                                     ![t].list = list, ![t].syn_idx = at]
  /\ UNCHANGED <<voiceVars, fnVars, netVars, polls, up, redis_client, running, transcripts, entities,
                 domain_responses, suggestions, busVars, pc, cur, hres,
                 deliveries>>

\* _rank_suggestions, lines 415-422: WORKING, then the worker thread
RankStart(t) ==
  /\ t \in DOMAIN task
  /\ task[t].pc = "synDone"
  /\ update_agent_status("ranking_agent", WORKING, Sid)
  /\ task' = [task EXCEPT ![t].pc = "rankCall"]
  /\ UNCHANGED <<voiceVars, fnVars, netVars, polls, up, redis_client, running, transcripts, entities,
                 domain_responses, suggestions, busVars, pc, cur,
                 session_contexts, hres, deliveries>>

\* variant of RankReturn: the event carries the chain as it was before the
\* ranking entry
RankReturnOldChain(t) ==
  /\ t \in DOMAIN task
  /\ task[t].pc = "rankCall"
  /\ IF rank_raises(task[t].list)
     THEN /\ update_agent_status("ranking_agent", ERROR, Sid)
          /\ task' = [task EXCEPT ![t].pc = "tail", ![t].rank = "raised"]
          /\ UNCHANGED <<session_contexts, suggestions>>
     ELSE LET ranked == rank_suggestions(task[t].list)
              after == InputAfterRanking(task[t].list)
              old == Context(Sid)
              chain == Append([old.provenance_chain EXCEPT
                                 ![task[t].syn_idx].outputs = after],
                              Provenance("ranking_agent", after, ranked))
          IN /\ session_contexts' =
                  [session_contexts EXCEPT
                     ![Sid].suggestions =
                        IF old.suggestions_ref = task[t].syn_idx
                        THEN after ELSE @,
                     ![Sid].provenance_chain = chain]
             /\ suggestions' =
                  publish(suggestions,
                          [type |-> "suggestions_ready", session_id |-> Sid,
                           suggestions |-> ranked,
                           provenance_chain |-> old.provenance_chain])
             /\ task' = [task EXCEPT ![t].pc = "ranked", ![t].rank = "ok",
                                     ![t].list = after]
             /\ UNCHANGED <<agent_statuses, agent_status>>
  /\ UNCHANGED <<voiceVars, fnVars, netVars, polls, up, redis_client, running, transcripts, entities,
                 domain_responses, busVars, pc, cur, hres, deliveries>>

\* _rank_suggestions after the worker thread returned, lines 423-450, or
\* raised, lines 455-457.  The thread has written rank and
\* ranking_confidence into the dicts of the list it was given: that list is
\* the outputs of the synthesis entry at syn_idx and, while no later
\* synthesis has replaced it, context['suggestions'].
RankReturn(t) ==
  /\ t \in DOMAIN task
  /\ task[t].pc = "rankCall"
  /\ IF rank_raises(task[t].list)
     THEN /\ update_agent_status("ranking_agent", ERROR, Sid)
          /\ task' = [task EXCEPT ![t].pc = "tail", ![t].rank = "raised"]
          /\ UNCHANGED <<session_contexts, suggestions>>
     ELSE LET ranked == rank_suggestions(task[t].list)
              after == InputAfterRanking(task[t].list)
              old == Context(Sid)
              chain == Append([old.provenance_chain EXCEPT
                                 ![task[t].syn_idx].outputs = after],
                              Provenance("ranking_agent", after, ranked))
          IN /\ session_contexts' =
                  [session_contexts EXCEPT
                     ![Sid].suggestions =
                        IF old.suggestions_ref = task[t].syn_idx
                        THEN after ELSE @,
                     ![Sid].provenance_chain = chain]
             /\ suggestions' =
                  publish(suggestions,
                          [type |-> "suggestions_ready", session_id |-> Sid,
                           suggestions |-> ranked,
                           provenance_chain |-> chain])
             /\ task' = [task EXCEPT ![t].pc = "ranked", ![t].rank = "ok",
                                     ![t].list = after]
             /\ UNCHANGED <<agent_statuses, agent_status>>
  /\ UNCHANGED <<voiceVars, fnVars, netVars, polls, up, redis_client, running, transcripts, entities,
                 domain_responses, busVars, pc, cur, hres, deliveries>>

\* _rank_suggestions, line 452
RankComplete(t) ==
  /\ t \in DOMAIN task
  /\ task[t].pc = "ranked"
  /\ update_agent_status("ranking_agent", COMPLETED, Sid)
  /\ task' = [task EXCEPT ![t].pc = "tail"]
  /\ UNCHANGED <<voiceVars, fnVars, netVars, polls, up, redis_client, running, transcripts, entities,
                 domain_responses, suggestions, busVars, pc, cur,
                 session_contexts, hres, deliveries>>

\* back in the caller of _generate_suggestions: a job marks its agent
\* COMPLETED (line 219 and the like); the handler (task 0) publishes
\* entities_extracted (lines 135-143)
PipelineExit(t) ==
  /\ t \in DOMAIN task
  /\ task[t].pc = "tail"
  /\ task' = [task EXCEPT ![t].pc = "done"]
  /\ IF t = 0
     THEN /\ entities' = publish(entities, EntitiesEvent)
          /\ pc' = [pc EXCEPT ![Main] = "ack"]
          /\ UNCHANGED <<agent_statuses, agent_status>>
     ELSE /\ update_agent_status(task[t].agent, COMPLETED, Sid)
          /\ UNCHANGED <<entities, pc>>
  /\ UNCHANGED <<voiceVars, fnVars, netVars, polls, up, redis_client, running, transcripts, domain_responses,
                 suggestions, busVars, cur, session_contexts, hres,
                 deliveries>>

\* variant of Join: the handler goes on as soon as one job of the batch is
\* done
JoinFirstDone ==
  /\ pc[Main] = "join"
  /\ 0 \notin DOMAIN task
  /\ \E i \in DOMAIN task : task[i].pc = "done"
  /\ entities' = publish(entities, EntitiesEvent)
  /\ pc' = [pc EXCEPT ![Main] = "ack"]
  /\ UNCHANGED <<voiceVars, fnVars, netVars, polls, up, redis_client, running, transcripts, domain_responses,
                 suggestions, agent_status, busVars, cur, agent_statuses,
                 session_contexts, task, hres, deliveries>>

\* line 182: gather(..., return_exceptions=True) is done when every job is;
\* the handler then publishes entities_extracted (lines 135-143)
Join ==
  /\ pc[Main] = "join"
  /\ 0 \notin DOMAIN task
  /\ \A i \in DOMAIN task : task[i].pc = "done"
  /\ entities' = publish(entities, EntitiesEvent)
  /\ pc' = [pc EXCEPT ![Main] = "ack"]
  /\ UNCHANGED <<voiceVars, fnVars, netVars, polls, up, redis_client, running, transcripts, domain_responses,
                 suggestions, agent_status, busVars, cur, agent_statuses,
                 session_contexts, task, hres, deliveries>>

\* event_bus.py:127: the handler returned, XACK takes the entry out of the
\* pending list; a failed XACK is logged (line 130)
Ack ==
  /\ pc[Main] = "ack"
  /\ IF up
     THEN /\ pending' = [pending EXCEPT ![Main] = @ \ {cur[Main]}]
          /\ acked' = [acked EXCEPT ![Main] = @ \cup {cur[Main]}]
     ELSE UNCHANGED <<pending, acked>>
  /\ hres' = [hres EXCEPT ![cur[Main]] = "ok"]
  /\ task' = EmptyMap
  /\ pc' = [pc EXCEPT ![Main] = "read"]
  /\ UNCHANGED <<voiceVars, fnVars, netVars, polls, up, redis_client, running, streamVars, groups, cursor, cur,
                 agent_statuses, session_contexts, deliveries>>

\* ---------------------------------------------------------------- Next
TaskIds == 0..3

\* the two subscription tasks of start()
BusLoops ==
  \/ \E sub \in Subs : Subscribe(sub)
  \/ \E sub \in Subs : Read(sub)
  \/ HandleDomainResponse

\* the transcript handler and its jobs; fails and outcomes are the ways the
\* enrichment and the synthesis collaborators may end
Orchestrator(fails, outcomes) ==
  \/ Dispatch
  \/ Extract
  \/ Fanout
  \/ \E i \in TaskIds, raised \in fails : JobReturn(i, raised)
  \/ \E i \in TaskIds : CheckReady(i)
  \/ \E t \in TaskIds : SynthStart(t)
  \/ \E t \in TaskIds, o \in outcomes : SynthReturn(t, o)
  \/ \E t \in TaskIds : RankStart(t)
  \/ \E t \in TaskIds : RankReturn(t)
  \/ \E t \in TaskIds : RankComplete(t)
  \/ \E t \in TaskIds : PipelineExit(t)
  \/ Join
  \/ Ack

\* Spec: fragments of two sessions with at most one entity each, handled one
\* after the other; undecodable entries; every collaborator may fail.
Next ==
  \/ Start
  \/ \E sid \in Sessions, text \in {"tPer", "tNone", "tBad"} :
        PublishTranscript(sid, text, MaxJobs)
  \/ \E sid \in Sessions : PublishUndecodable(sid)
  \/ BusLoops
  \/ Orchestrator(BOOLEAN, SynthOutcomes \cup {"raised"})

Spec == Init /\ [][Next]_vars

\* SpecPar: fragments of one session, one of them with two PERSON entities,
\* whose two jobs run concurrently; every collaborator may fail.
NextPar ==
  \/ Start
  \/ \E text \in {"tPer", "tTwo"} : PublishTranscript("s1", text, MaxJobs)
  \/ BusLoops
  \/ Orchestrator(BOOLEAN, SynthOutcomes \cup {"raised"})

SpecPar == Init /\ [][NextPar]_vars

\* SpecStore: fragments of one session with two PERSON entities and with one
\* of the two again, so that a slot of domain_data is written a second time
\* while another slot is there; the synthesis always answers.
NextStore ==
  \/ Start
  \/ \E text \in {"tTwo", "tPer"} : PublishTranscript("s1", text, MaxStoreJobs)
  \/ BusLoops
  \/ Orchestrator(BOOLEAN, {"llm"})

SpecStore == Init /\ [][NextStore]_vars

\* SpecCtx: the turns of session s1, and one call of an operation of the
\* orchestrator for a session id that has no context.  fn_arg is the call,
\* fn_ret how it ended.
\* _store_domain_data, lines 308-309, and _check_suggestion_readiness, lines
\* 341-342, return at once.  _generate_suggestions marks its agent WORKING
\* (354), context = self.session_contexts[session_id] raises KeyError (357),
\* the except marks the agent ERROR (409-411).  _rank_suggestions marks its
\* agent WORKING (415), ranks, raises KeyError at the append (438), and the
\* except marks the agent ERROR (455-457).
CallWithoutContext(op, sid) ==
  /\ fn_pc = "none"
  /\ sid \notin DOMAIN session_contexts
  /\ fn_arg' = <<op, sid>>
  /\ fn_ret' = <<"returned">>
  /\ fn_pc' = "ret"
  /\ IF op \in {"store_domain_data", "check_suggestion_readiness"}
     THEN UNCHANGED <<agent_statuses, agent_status>>
     ELSE LET agent == IF op = "generate_suggestions"
                       THEN "suggestion_generator" ELSE "ranking_agent"
          IN /\ agent_statuses' = [agent_statuses EXCEPT ![agent] = ERROR]
             /\ agent_status' =
                  publishAll(agent_status,
                             SetToBag({StatusEvent(agent, WORKING, sid),
                                       StatusEvent(agent, ERROR, sid)}))
  /\ UNCHANGED <<voiceVars, netVars, polls, up, redis_client, running, transcripts,
                 entities, domain_responses, suggestions, busVars, pc, cur,
                 session_contexts, task, hres, deliveries>>

NextCtx ==
  \/ Start
  \/ \E text \in {"tPer", "tNone"} : PublishTranscript("s1", text, MaxJobs)
  \/ BusLoops
  \/ Orchestrator(BOOLEAN, SynthOutcomes \cup {"raised"})
  \/ \E op \in {"store_domain_data", "check_suggestion_readiness",
               "generate_suggestions", "rank_suggestions"} :
       CallWithoutContext(op, "s2")

SpecCtx == Init /\ [][NextCtx]_vars

\* SpecOrg: the end-to-end case of spec section 8: one fragment with one ORG
\* entity, every collaborator call succeeds.  The aggregator subscription,
\* whose handler only logs, is left out.
NextOrg ==
  \/ Start
  \/ PublishTranscript("s1", "tOrg", MaxOrgJobs)
  \/ Subscribe(Main)
  \/ Read(Main)
  \/ Orchestrator({FALSE}, {"llm"})

SpecOrg == Init /\ [][NextOrg]_vars

\* FairSpec: Spec with the empty reads of the loops made visible.  The event
\* loop runs every task that can run: weak fairness of the steps of the
\* subscription tasks and of the handler; nothing is assumed of the
\* producers.
Polling == \E sub \in Subs : ReadEmpty(sub)

NextPoll == Next \/ Polling

Fairness ==
  /\ WF_vars(BusLoops)
  /\ WF_vars(Polling)
  /\ WF_vars(Orchestrator(BOOLEAN, SynthOutcomes \cup {"raised"}))

FairSpec == Init /\ [][NextPoll]_vars /\ Fairness

\* ------------------------------------------------- lifecycle and transport
\* the Redis server, or the network to it, goes away and comes back
TransportDown ==
  /\ up
  /\ up' = FALSE
  /\ UNCHANGED <<voiceVars, fnVars, netVars, polls, redis_client, running, streamVars,
                 busVars, pc, cur, agent_statuses, session_contexts, task,
                 hres, deliveries>>

TransportUp ==
  /\ ~up
  /\ up' = TRUE
  /\ UNCHANGED <<voiceVars, fnVars, netVars, polls, redis_client, running, streamVars,
                 busVars, pc, cur, agent_statuses, session_contexts, task,
                 hres, deliveries>>

\* a producer calls publish while the client is not set or XADD fails
\* (event_bus.py:68-70, 85-87): False is returned
PublishFails(sid, text) ==
  /\ ~CanPublish
  /\ transcripts' =
       publish(transcripts, [session_id |-> sid, text |-> text, wire |-> "ok"])
  /\ publish_ret' = publish_returns(transcripts)
  /\ UNCHANGED <<voiceVars, fnVars, connect_result, closed, polls, up, redis_client,
                 running, entities, domain_responses, suggestions,
                 agent_status, busVars, pc, cur, agent_statuses,
                 session_contexts, task, hres, deliveries>>

\* event_bus.py:132-134: XREADGROUP raises ConnectionError, which is logged,
\* and the loop sleeps a second
ReadTransportError(sub) ==
  /\ pc[sub] = "read"
  /\ running
  /\ ~up
  /\ pc' = [pc EXCEPT ![sub] = "backoff"]
  /\ UNCHANGED <<voiceVars, fnVars, netVars, polls, up, redis_client, running,
                 streamVars, busVars, cur, agent_statuses, session_contexts,
                 task, hres, deliveries>>

\* event_bus.py:134, 104: the sleep is over, the loop goes round
Backoff(sub) ==
  /\ pc[sub] = "backoff"
  /\ pc' = [pc EXCEPT ![sub] = "read"]
  /\ UNCHANGED <<voiceVars, fnVars, netVars, polls, up, redis_client, running,
                 streamVars, busVars, cur, agent_statuses, session_contexts,
                 task, hres, deliveries>>

\* event_bus.py:136-137: XREADGROUP on a group that was never created (XGROUP
\* CREATE had failed, lines 99-100) is answered with NOGROUP, a ResponseError:
\* it leaves the while loop and subscribe() returns
ReadNoGroup(sub) ==
  /\ pc[sub] = "read"
  /\ running
  /\ up
  /\ sub \notin groups
  /\ pc' = [pc EXCEPT ![sub] = "exit"]
  /\ UNCHANGED <<voiceVars, fnVars, netVars, polls, up, redis_client, running,
                 streamVars, busVars, cur, agent_statuses, session_contexts,
                 task, hres, deliveries>>

\* event_bus.py:104: the loop ends when running is false at its test
LoopExit(sub) ==
  /\ pc[sub] = "read"
  /\ ~running
  /\ pc' = [pc EXCEPT ![sub] = "exit"]
  /\ UNCHANGED <<voiceVars, fnVars, netVars, polls, up, redis_client, running,
                 streamVars, busVars, cur, agent_statuses, session_contexts,
                 task, hres, deliveries>>

\* EventBus.stop_listening, lines 143-145
stop_listening ==
  /\ running
  /\ running' = FALSE
  /\ UNCHANGED <<voiceVars, fnVars, netVars, polls, up, redis_client, streamVars,
                 busVars, pc, cur, agent_statuses, session_contexts, task,
                 hres, deliveries>>

\* EventBus.close, lines 147-151, as called by shutdown (main.py:64): the
\* connections of the client are closed.  redis_client stays set and running
\* stays as it is; the next command of a loop opens a connection again.
close ==
  /\ redis_client
  /\ ~closed
  /\ closed' = TRUE
  /\ UNCHANGED <<voiceVars, fnVars, connect_result, publish_ret, polls, up,
                 redis_client, running, streamVars, busVars, pc, cur,
                 agent_statuses, session_contexts, task, hres, deliveries>>

\* the process ends after its shutdown (main.py:60-64) and is started again
\* (main.py:36-40): the objects are built anew, what Redis holds (streams,
\* groups, cursors, pending lists) stays
Restart ==
  /\ closed
  /\ redis_client' = FALSE
  /\ running' = FALSE
  /\ pc' = [s \in Subs |-> "init"]
  /\ cur' = [s \in Subs |-> 0]
  /\ agent_statuses' = [a \in Agents |-> IDLE]
  /\ session_contexts' = EmptyMap
  /\ task' = EmptyMap
  /\ polls' = [s \in Subs |-> 0]
  /\ connect_result' = "none"
  /\ closed' = FALSE
  /\ publish_ret' = NoReturn
  /\ UNCHANGED <<voiceVars, fnVars, up, streamVars, busVars, hres, deliveries>>

\* SpecNet: the bus under its whole life: the transport comes and goes, the
\* bus is stopped and closed, the process is restarted.  The fragments are of
\* one session and name no entity, so that a handler is the extraction and
\* the publish of entities_extracted and nothing reaches the aggregator.
Lifecycle ==
  \/ TransportDown
  \/ TransportUp
  \/ stop_listening
  \/ close
  \/ Restart

LoopEnds ==
  \/ \E sub \in Subs : ReadEmpty(sub)
  \/ \E sub \in Subs : ReadTransportError(sub)
  \/ \E sub \in Subs : Backoff(sub)
  \/ \E sub \in Subs : ReadNoGroup(sub)
  \/ \E sub \in Subs : LoopExit(sub)

Loops ==
  \/ \E sub \in Subs : Subscribe(sub)
  \/ Read(Main)
  \/ LoopEnds

Handler ==
  \/ Dispatch
  \/ Extract
  \/ Fanout
  \/ Ack

NextNet ==
  \/ Start
  \/ Len(transcripts) < MaxNetTranscripts
       /\ PublishTranscript("s1", "tNone", MaxJobs)
  \/ PublishFails("s1", "tNone")
  \/ Loops
  \/ Handler
  \/ Lifecycle

SpecNet == Init /\ [][NextNet]_vars

\* FairNet: SpecNet where the event loop runs every task that can run;
\* nothing is assumed of the transport, the producers and the operator.
FairnessNet ==
  /\ \A sub \in Subs :
        WF_vars(Subscribe(sub) \/ Read(sub) \/ ReadEmpty(sub)
                  \/ ReadTransportError(sub) \/ Backoff(sub)
                  \/ ReadNoGroup(sub) \/ LoopExit(sub))
  /\ WF_vars(Handler)

FairNet == SpecNet /\ FairnessNet

\* SpecRank: RankingAgent.rank_suggestions as a function.  The argument is
\* any list of at most MaxRankLen suggestions with numeric confidenceScore
\* (what the contract of the ranking collaborator takes); the call returns the
\* ranked list and leaves rank and ranking_confidence in the dicts of its
\* argument.
Scores == {40, 50, 70, 90}
IdAt == <<"a", "b", "c", "d">>

RankInputs ==
  UNION {{[i \in 1..n |-> Suggestion(IdAt[i], sc[i])] :
            sc \in [1..n -> Scores]} : n \in 0..MaxRankLen}

InitRank ==
  /\ InitProgram
  /\ fn_arg \in RankInputs
  /\ fn_ret = <<>>
  /\ fn_pc = "call"

RankCall ==
  /\ fn_pc = "call"
  /\ ~rank_raises(fn_arg)
  /\ fn_ret' = rank_suggestions(fn_arg)
  /\ fn_arg' = InputAfterRanking(fn_arg)
  /\ fn_pc' = "ret"
  /\ UNCHANGED progVars

SpecRank == InitRank /\ [][RankCall]_vars

\* SpecPlan: _trigger_domain_intelligence as a function of the entities of
\* the fragment: any list of at most MaxEntities entities, each with a name
\* and a spaCy label or UNKNOWN as its type (entityExtractor.py:173-174,
\* 192-193); the call makes the list of coroutines that gather() is given.
EntityNames == {"Acme", "Bob"}
EntityLists ==
  UNION {[1..n -> [name : EntityNames,
                   type : {"ORG", "PERSON", "GPE", "UNKNOWN"}]] :
           n \in 0..MaxEntities}

InitPlan ==
  /\ InitProgram
  /\ fn_arg \in EntityLists
  /\ fn_ret = <<>>
  /\ fn_pc = "call"

trigger_domain_intelligence ==
  /\ fn_pc = "call"
  /\ fn_ret' = PlanJobs(fn_arg)
  /\ fn_pc' = "ret"
  /\ UNCHANGED <<fn_arg, progVars>>

SpecPlan == InitPlan /\ [][trigger_domain_intelligence]_vars

\* SpecInfo: the building of domain_info in _generate_suggestions as a
\* function of domain_data: any map of the entities Acme and Bob to
\* non-empty maps of job kinds to results (_store_domain_data makes no
\* empty entity dict).
JobKinds == {"company_profile", "company_news", "market_competitor",
             "person_enrichment"}

KindMaps == UNION {[ks -> 1..MaxSeq] : ks \in (SUBSET JobKinds) \ {{}}}

DomainDatas ==
  UNION {{[e \in es |->
             [k \in DOMAIN f[e] |->
                [event |-> k, name |-> e, seq |-> f[e][k]]]] :
            f \in [es -> KindMaps]} : es \in SUBSET EntityNames}

InitInfo ==
  /\ InitProgram
  /\ fn_arg \in DomainDatas
  /\ fn_ret = <<>>
  /\ fn_pc = "call"

BuildDomainInfo ==
  /\ fn_pc = "call"
  /\ fn_ret' = DomainInfo(fn_arg)
  /\ fn_pc' = "ret"
  /\ UNCHANGED <<fn_arg, progVars>>

SpecInfo == InitInfo /\ [][BuildDomainInfo]_vars

\* SpecVoice: the lifecycle of one AssemblyAIRealtimeTranscriber.  Its client
\* calls start_streaming, stop_streaming and cleanup one after the other, at
\* most MaxCalls times; the thread of the WebSocketApp runs on_open, on_error
\* and on_close, and the audio thread runs until it sees the stop event.  A
\* client call is one action: cleanup_lock serializes the bodies of cleanup,
\* and a cleanup of on_close that ran inside a stop_streaming leaves what a
\* cleanup before or after it leaves.  The callbacks are those of the
\* WebSocketApp in self.ws_app: an older one can only call a cleanup that
\* returns at once, since is_cleaning_up is set by then.
\* the test of cleanup for an earlier cleanup (voice.py:255)
CleanupNeverSkips(t) == FALSE
CleanupSkips(t) == t.is_cleaning_up

\* cleanup(): what it leaves of the fields t and the devices d; joined tells
\* whether the audio thread ended within the timeout of the join.  Every
\* call on a device is inside a try whose handler sets the field to None.
cleanup(t, d, joined) ==
  IF CleanupSkips(t)
  THEN [t |-> t, d |-> d]
  ELSE [t |-> [t EXCEPT !.is_cleaning_up = TRUE, !.stop_event = TRUE,
                        !.stream = FALSE, !.audio = FALSE,
                        !.is_running = FALSE],
        d |-> [d EXCEPT !.streams = IF t.stream THEN @ - 1 ELSE @,
                        !.handles = IF t.audio THEN @ - 1 ELSE @,
                        !.thread_alive =
                          IF t.audio_thread /\ joined THEN FALSE ELSE @]]

Called(op, outcome) ==
  voice_call' = [op |-> op, outcome |-> outcome,
                 calls |-> voice_call.calls + 1]

start_streaming(outcome, joined) ==
  /\ voice_call.calls < MaxCalls
  /\ IF transcriber.is_running
     THEN /\ Called("start_streaming", "already")
          /\ UNCHANGED <<transcriber, devices>>
     ELSE LET t1 == [transcriber EXCEPT !.stop_event = FALSE,
                                        !.is_running = TRUE]
              t2 == [t1 EXCEPT !.audio = TRUE]
              d2 == [devices EXCEPT !.handles = @ + 1]
              r == IF outcome = "no_pyaudio"
                   THEN cleanup(t1, devices, joined)
                   ELSE IF outcome = "no_stream"
                   THEN cleanup(t2, d2, joined)
                   ELSE [t |-> [t2 EXCEPT !.stream = TRUE, !.ws_app = TRUE],
                         d |-> [d2 EXCEPT !.streams = @ + 1,
                                          !.sock = "connecting"]]
          IN /\ transcriber' = r.t
             /\ devices' = r.d
             /\ Called("start_streaming", outcome)
  /\ UNCHANGED <<fnVars, netVars, polls, up, redis_client, running,
                 streamVars, busVars, pc, cur, agent_statuses,
                 session_contexts, task, hres, deliveries>>

stop_streaming(joined) ==
  /\ voice_call.calls < MaxCalls
  /\ IF ~transcriber.is_running
     THEN UNCHANGED <<transcriber, devices>>
     ELSE LET t1 == [transcriber EXCEPT !.is_running = FALSE,
                                        !.stop_event = TRUE]
              d1 == [devices EXCEPT
                       !.sock = IF t1.ws_app /\ @ \in {"connecting", "open"}
                                THEN "closing" ELSE @,
                       !.thread_alive =
                         IF t1.audio_thread /\ joined THEN FALSE ELSE @]
              r == cleanup(t1, d1, joined)
          IN /\ transcriber' = r.t
             /\ devices' = r.d
  /\ Called("stop_streaming", "returned")
  /\ UNCHANGED <<fnVars, netVars, polls, up, redis_client, running,
                 streamVars, busVars, pc, cur, agent_statuses,
                 session_contexts, task, hres, deliveries>>

CleanupCall(joined) ==
  /\ voice_call.calls < MaxCalls
  /\ LET r == cleanup(transcriber, devices, joined)
     IN /\ transcriber' = r.t
        /\ devices' = r.d
  /\ Called("cleanup", "returned")
  /\ UNCHANGED <<fnVars, netVars, polls, up, redis_client, running,
                 streamVars, busVars, pc, cur, agent_statuses,
                 session_contexts, task, hres, deliveries>>

\* on_open: the socket is connected; the audio thread is made and started.
on_open ==
  /\ devices.sock = "connecting"
  /\ devices' = [devices EXCEPT !.sock = "open", !.thread_alive = TRUE]
  /\ transcriber' = [transcriber EXCEPT !.audio_thread = TRUE]
  /\ UNCHANGED <<voice_call, fnVars, netVars, polls, up, redis_client,
                 running, streamVars, busVars, pc, cur, agent_statuses,
                 session_contexts, task, hres, deliveries>>

\* on_error: an authentication error sets the stop event, another error
\* changes nothing.
on_error(authentication) ==
  /\ devices.sock \in {"connecting", "open"}
  /\ transcriber' = [transcriber EXCEPT
                       !.stop_event = IF authentication THEN TRUE ELSE @]
  /\ UNCHANGED <<devices, voice_call, fnVars, netVars, polls, up,
                 redis_client, running, streamVars, busVars, pc, cur,
                 agent_statuses, session_contexts, task, hres, deliveries>>

\* on_close: the socket is closed, normally (codes 1000, 1001 or none) or
\* not; cleanup is called if the stop event is set or the closure was not
\* normal.
on_close(normal, joined) ==
  /\ devices.sock \in {"connecting", "open", "closing"}
  /\ LET d1 == [devices EXCEPT !.sock = "closed"]
         r == IF transcriber.stop_event \/ ~normal
              THEN cleanup(transcriber, d1, joined)
              ELSE [t |-> transcriber, d |-> d1]
     IN /\ transcriber' = r.t
        /\ devices' = r.d
  /\ UNCHANGED <<voice_call, fnVars, netVars, polls, up, redis_client,
                 running, streamVars, busVars, pc, cur, agent_statuses,
                 session_contexts, task, hres, deliveries>>

\* stream_audio: the loop of the audio thread ends once the stop event is
\* set or the stream is gone.
stream_audio_ends ==
  /\ devices.thread_alive
  /\ transcriber.stop_event \/ ~transcriber.stream
  /\ devices' = [devices EXCEPT !.thread_alive = FALSE]
  /\ UNCHANGED <<transcriber, voice_call, fnVars, netVars, polls, up,
                 redis_client, running, streamVars, busVars, pc, cur,
                 agent_statuses, session_contexts, task, hres, deliveries>>

NextVoice ==
  \/ \E outcome \in {"ok", "no_pyaudio", "no_stream"}, joined \in BOOLEAN :
       start_streaming(outcome, joined)
  \/ \E joined \in BOOLEAN : stop_streaming(joined)
  \/ \E joined \in BOOLEAN : CleanupCall(joined)
  \/ on_open
  \/ \E authentication \in BOOLEAN : on_error(authentication)
  \/ \E normal \in BOOLEAN, joined \in BOOLEAN : on_close(normal, joined)
  \/ stream_audio_ends

SpecVoice == Init /\ [][NextVoice]_vars

\* ================================================================ claims

\* C1: in the read loop an entry is acknowledged only after its handler
\* returned normally: every acknowledged transcript entry is one whose
\* handler completed without raising, and an entry whose decode or handler
\* raised is still pending and not acknowledged.
C1_AckOnlyAfterHandler ==
  /\ \A m \in acked[Main] : hres[m] = "ok"
  /\ \A m \in DOMAIN hres :
        hres[m] \in {"raised", "undecodable"} =>
          m \in pending[Main] /\ m \notin acked[Main]
  /\ \A sub \in Subs : acked[sub] \cap pending[sub] = {}

\* an entry whose handler raised sits next to an acknowledged one
C1_Witness ==
  \E m, n \in DOMAIN hres : hres[m] = "raised" /\ n \in acked[Main]

\* C2: at-least-once delivery: an entry whose handler raised is eventually
\* delivered again to the group while the read loop keeps running.
C2_Redelivered ==
  \A m \in 1..MaxTranscripts :
    (m \in DOMAIN hres /\ hres[m] = "raised")
      ~> (m \in DOMAIN deliveries /\ deliveries[m] >= 2)

\* suggestions_ready entries published for a session
ReadyEvents(sid) ==
  {i \in DOMAIN suggestions : suggestions[i].session_id = sid}

\* status entries of a session with the given status
StatusCount(sid, agent, status) ==
  CopiesIn(StatusEvent(agent, status, sid), agent_status)

\* the stream holds one fragment, of session sid, with the single ORG entity,
\* and no collaborator call of the session has failed
EndToEndCase(sid) ==
  /\ Len(transcripts) = 1
  /\ transcripts[1] = [session_id |-> sid, text |-> "tOrg", wire |-> "ok"]
  /\ \A a \in Agents : StatusCount(sid, a, ERROR) = 0
  /\ \A t \in DOMAIN task : task[t].syn \in {"none", "llm"}

\* C3: end-to-end, for one fragment with a single ORG entity whose three
\* enrichment jobs, synthesis and ranking all succeed, exactly one
\* suggestions_ready entry is published for the session: never a second one,
\* and one once the fragment is handled.
C3_OneSuggestionsReady ==
  \A sid \in Sessions :
    EndToEndCase(sid) =>
      /\ Cardinality(ReadyEvents(sid)) <= 1
      /\ hres[1] = "ok" => Cardinality(ReadyEvents(sid)) = 1

\* the jobs of the batch in hand
Jobs == DOMAIN task \ {0}

\* the slot of job i holds a result written for the fragment in hand
WrittenNow(i) ==
  LET dd == Context(Sid).domain_data
  IN /\ task[i].entity \in DOMAIN dd
     /\ task[i].agent \in DOMAIN dd[task[i].entity]
     /\ dd[task[i].entity][task[i].agent].seq = cur[Main]

\* C4: fan-out isolation.  In a batch where a job fails, the failed job
\* writes no domain_data entry for its (entity, job_kind); once the batch has
\* joined every sibling has run to completion and the result of every
\* successful one is in domain_data; the failure never leaves the handler
\* (only a failed extraction makes a delivery end with an exception).
C4_FanOutIsolation ==
  /\ \A i \in Jobs : task[i].result = "raised" =>
        task[i].pc = "done" /\ ~WrittenNow(i)
  /\ pc[Main] = "ack" =>
        \A i \in Jobs :
          /\ task[i].pc = "done"
          /\ task[i].result \in {"ok", "raised"}
          /\ task[i].result = "ok" =>
               /\ WrittenNow(i)
               /\ Context(Sid).domain_data[task[i].entity][task[i].agent]
                    = task[i].value
  /\ \A m \in DOMAIN hres :
        hres[m] = "raised" => process_text_raises(transcripts[m].text)

\* a joined batch with a failed job and a successful sibling
C4_Witness ==
  /\ pc[Main] = "ack"
  /\ \E i, j \in Jobs : task[i].result = "raised" /\ task[j].result = "ok"

\* a collaborator call of the fragment in hand is running in a worker thread
InFlight ==
  \E t \in DOMAIN task : task[t].pc \in {"call", "synCall", "rankCall"}

\* C5: collaborator calls never block acceptance of new transcript fragments:
\* while the enrichment batch, synthesis or ranking of one fragment is in
\* flight and a further fragment (of any session) waits in the stream, the
\* transcripts subscription can read it.
C5_AcceptsNextFragment ==
  (/\ running /\ up /\ Main \in groups
   /\ InFlight
   /\ cursor[Main] < Len(transcripts))
    => ENABLED Read(Main)

\* the fragment at position m has got through extraction normally: its
\* handler has returned, or it is in hand and past the extraction
Extracted(m) ==
  \/ hres[m] = "ok"
  \/ m = cur[Main] /\ pc[Main] \in {"fanout", "join", "ack"}

\* the texts, in publish order, of the first n stream entries that belong to
\* session sid and got through extraction
RECURSIVE HandledTexts(_, _)
HandledTexts(sid, n) ==
  IF n = 0 THEN <<>>
  ELSE LET rest == HandledTexts(sid, n - 1)
       IN IF transcripts[n].session_id = sid /\ Extracted(n)
          THEN Append(rest, transcripts[n].text)
          ELSE rest

\* C6: for every session, each transcript event whose handler completes
\* normally adds exactly one entry to the session's transcript_history, and
\* the entries are in the order in which the events were published; an event
\* whose decode or handler raised adds none.
C6_HistoryInPublishOrder ==
  \A sid \in Sessions :
    ContextFor(sid).transcript_history = HandledTexts(sid, Len(transcripts))

\* two different fragments of one session, both handled
C6_Witness ==
  \E sid \in DOMAIN session_contexts :
    LET h == session_contexts[sid].transcript_history
    IN /\ Len(h) = 2 /\ h[1] # h[2]
       /\ Len(hres) = 2 /\ hres[1] = "ok" /\ hres[2] = "ok"
       /\ transcripts[1].session_id = transcripts[2].session_id

\* entry m repeats an event that was handled before it
IsDuplicate(m) ==
  \E n \in 1..(m - 1) : transcripts[n] = transcripts[m] /\ hres[n] = "ok"

\* the handler holds a repeated event
DuplicateInHand ==
  /\ pc[Main] \in {"deliv", "extract", "fanout", "join", "ack"}
  /\ IsDuplicate(cur[Main])

Elems(seq) == {seq[i] : i \in DOMAIN seq}

IsPrefix(a, b) == Len(a) <= Len(b) /\ SubSeq(b, 1, Len(a)) = a

\* nothing is taken out of transcript_history, domain_data and
\* provenance_chain
KeepsRecords(old, new) ==
  /\ IsPrefix(old.transcript_history, new.transcript_history)
  /\ Slots(old.domain_data) \subseteq Slots(new.domain_data)
  /\ Len(old.provenance_chain) <= Len(new.provenance_chain)
  /\ \A i \in DOMAIN old.provenance_chain :
        new.provenance_chain[i].agent_id = old.provenance_chain[i].agent_id

\* nothing is taken out of entities and suggestions either
KeepsLists(old, new) ==
  /\ Elems(old.entities) \subseteq Elems(new.entities)
  /\ {x.id : x \in Elems(old.suggestions)}
       \subseteq {x.id : x \in Elems(new.suggestions)}

NoDuplicateRaises ==
  \A m \in DOMAIN hres : IsDuplicate(m) => hres[m] # "raised"

\* C7 as stated: handling the same transcript event a second time completes
\* without raising and removes nothing that the context of the session
\* (transcript_history, entities, domain_data, suggestions, provenance_chain)
\* held before.
C7_DuplicateRemovesNothing ==
  /\ []NoDuplicateRaises
  /\ [][DuplicateInHand =>
          /\ Sid \in DOMAIN session_contexts'
          /\ KeepsRecords(Context(Sid), session_contexts'[Sid])
          /\ KeepsLists(Context(Sid), session_contexts'[Sid])]_vars

\* C7 amended: handling the same transcript event a second time completes
\* without raising and removes nothing from transcript_history, from the
\* (entity, job_kind) slots of domain_data and from provenance_chain;
\* entities and suggestions are replaced by those of the latest extraction
\* and synthesis.
C7_DuplicateKeepsRecords ==
  /\ []NoDuplicateRaises
  /\ [][DuplicateInHand =>
          /\ Sid \in DOMAIN session_contexts'
          /\ KeepsRecords(Context(Sid), session_contexts'[Sid])]_vars

\* a repeated event has been handled
C7_Witness ==
  \E m \in DOMAIN hres :
    /\ IsDuplicate(m) /\ hres[m] = "ok"
    /\ Len(Context(transcripts[m].session_id).transcript_history) >= 2

\* domain_data holds a non-empty result for some entity
HasEvidence(dd) ==
  \E e \in DOMAIN dd : \E k \in DOMAIN dd[e] : DOMAIN dd[e][k] # {}

C9_FallbackOnSynthesisFailure ==
  \A t \in DOMAIN task :
    task[t].syn \in {"fallback", "raised"} =>
      /\ Len(task[t].list) >= 1
      /\ task[t].pc \in {"synDone", "rankCall", "ranked", "tail", "done"}
      /\ task[t].pc \in {"tail", "done"} => task[t].rank = "ok"

\* no transcript handler is running
Quiescent == pc[Main] \in {"init", "sub", "read", "exit"}

\* C10: for every agent invocation of a turn a WORKING status entry for the
\* agent and session is published first and is followed by a COMPLETED or
\* ERROR entry for the same agent and session: there are never more terminal
\* entries than WORKING ones, and as many once the handler has ended.
C10_WorkingThenTerminal ==
  \A sid \in Sessions, a \in Agents :
    LET working == StatusCount(sid, a, WORKING)
        ended == StatusCount(sid, a, COMPLETED) + StatusCount(sid, a, ERROR)
    IN /\ ended <= working
       /\ Quiescent => ended = working

\* a collaborator call of the turn in hand failed while an enrichment call
\* of the same turn succeeded
TurnPartlyFailed ==
  /\ \E t \in DOMAIN task :
        \/ task[t].result = "raised"
        \/ task[t].syn \in {"raised", "fallback"}
        \/ task[t].rank = "raised"
  /\ \E t \in DOMAIN task : task[t].result = "ok"

\* a coroutine of the turn in hand has published suggestions_ready with a
\* non-empty list
TurnPublished ==
  \E t \in DOMAIN task : task[t].rank = "ok" /\ Len(task[t].list) >= 1

\* C11: a session in which some collaborator calls of a turn fail still gets
\* a suggestions_ready event with at least one (real or fallback) suggestion
\* for that turn: when the handler of the turn has ended, the event has been
\* published.
C11_NoSilenceOnPartialFailure ==
  (pc[Main] = "ack" /\ TurnPartlyFailed) => TurnPublished

\* position of the suggestion with the given id in a list
PosOf(list, id) == CHOOSE i \in DOMAIN list : list[i].id = id

\* C12: rank_suggestions returns a permutation of its input ordered by
\* confidenceScore descending, suggestions of equal score keep their input
\* order, the suggestion at the i-th place carries rank i (counted from 1),
\* and ranking_confidence never increases from one place to the next.
C12_RankingOrder ==
  fn_pc = "ret" =>
    /\ Len(fn_ret) = Len(fn_arg)
    /\ \A j \in DOMAIN fn_arg :
         \E i \in DOMAIN fn_ret :
           /\ fn_ret[i].id = fn_arg[j].id
           /\ fn_ret[i].confidenceScore = fn_arg[j].confidenceScore
    /\ \A i, j \in DOMAIN fn_ret :
         i < j =>
           /\ fn_ret[i].id # fn_ret[j].id
           /\ fn_ret[i].confidenceScore >= fn_ret[j].confidenceScore
           /\ fn_ret[i].confidenceScore = fn_ret[j].confidenceScore
                => PosOf(fn_arg, fn_ret[i].id) < PosOf(fn_arg, fn_ret[j].id)
           /\ fn_ret[i].ranking_confidence >= fn_ret[j].ranking_confidence
    /\ \A i \in DOMAIN fn_ret : fn_ret[i].rank = i

\* the example of the spec: scores 90, 40, 90 come out as first, third,
\* second
C12_Witness ==
  /\ fn_pc = "ret"
  /\ Len(fn_arg) = 3
  /\ [i \in 1..3 |-> fn_arg[i].confidenceScore] = <<90, 40, 90>>
  /\ [i \in 1..3 |-> fn_ret[i].id] = <<"a", "c", "b">>
  /\ [i \in 1..3 |-> fn_ret[i].ranking_confidence] = <<90, 80, 70>>

\* C13: if connect() reports failure, dependent components do not start
\* consuming: the subscription tasks of start() run no read loop (each is
\* still to run or has returned) and no handler is invoked.
C13_NoConsumingAfterFailedConnect ==
  connect_result = "failed" => \A sub \in Subs : pc[sub] \in {"sub", "exit"}

\* the subscription task is in its read loop
InLoop(sub) ==
  pc[sub] \in {"read", "backoff", "deliv", "extract", "fanout", "join", "ack"}

\* C14: after stop_listening or close() has been called, every active read
\* loop ends after at most its current iteration: it eventually terminates.
C14_LoopsExitAfterStop ==
  \A sub \in Subs :
    ((closed \/ ~running) /\ InLoop(sub)) ~> (pc[sub] \in {"exit", "init"})


\* the read loop is at its read on an existing group with the transport
\* there: XREADGROUP delivers what is waiting
CanDeliver(sub) == pc[sub] = "read" /\ up /\ sub \in groups

\* C15: a transport error during a read never terminates a subscription:
\* while the bus is running the loop waits its backoff and reads again, and
\* when the transport is back for good it is delivering again.
C15_ReadLoopSurvivesOutage ==
  /\ [][\A sub \in Subs :
          pc[sub] = "backoff" => pc'[sub] \in {"backoff", "read", "init"}]_vars
  /\ <>[]up =>
       \A sub \in Subs :
         (pc[sub] = "backoff" /\ running)
           ~> (CanDeliver(sub) \/ ~running \/ pc[sub] = "init")

\* the step in which subscribe() of sub gets past its XGROUP CREATE
Subscribes(sub) == pc[sub] = "sub" /\ pc'[sub] \in {"read", "exit"}

\* C16: creating the consumer group is idempotent: subscribing again to a
\* (topic, group) that exists is not fatal (the read loop is entered) and
\* leaves the group's cursor, its pending entries, its acknowledged entries
\* and the logs as they were.
C16_GroupCreationIdempotent ==
  [][\A sub \in Subs :
       (Subscribes(sub) /\ redis_client /\ sub \in groups)
         => /\ pc'[sub] = "read"
            /\ busVars' = busVars
            /\ streamVars' = streamVars]_vars

\* the process was restarted while the first fragment was in hand, and the
\* new process has subscribed to the group of the old one: the entry is
\* still pending and the cursor is still past it
C16_Witness ==
  /\ pc[Main] = "read"
  /\ cur[Main] = 0
  /\ Main \in groups
  /\ cursor[Main] = 1
  /\ pending[Main] = {1}
  /\ connect_result = "ok"

\* a call of publish on the transcripts stream has returned in this step
PublishReturns ==
  publish_ret' \notin {publish_ret, NoReturn} \/ transcripts' # transcripts

\* C17: publish() never raises and never waits for a consumer: whatever the
\* read loops and the handler are doing, the call can be made and returns.
\* With the client set and the transport there it appends exactly one entry
\* to the stream and returns the id of that entry; otherwise it returns the
\* failure value and appends nothing, then and later (no retry): no stream
\* grows in a step taken without the transport.
C17_PublishContract ==
  /\ [](IF CanPublish
        THEN Len(transcripts) < MaxNetTranscripts
               => ENABLED PublishTranscript("s1", "tNone", MaxJobs)
        ELSE ENABLED PublishFails("s1", "tNone"))
  /\ [][/\ PublishReturns =>
            IF CanPublish
            THEN /\ Len(transcripts') = Len(transcripts) + 1
                 /\ SubSeq(transcripts', 1, Len(transcripts)) = transcripts
                 /\ publish_ret' = Len(transcripts')
            ELSE /\ transcripts' = transcripts
                 /\ publish_ret' = False
        /\ ~CanPublish => streamVars' = streamVars]_vars

\* a publish has succeeded and a later one has returned the failure value,
\* with the one entry of the success in the log and the read loop busy
C17_Witness ==
  /\ publish_ret = False
  /\ Len(transcripts) = 1
  /\ pc[Main] \in {"deliv", "extract", "fanout", "ack"}

\* the entries of the transcripts stream that cannot be decoded
Poison == {m \in DOMAIN transcripts : transcripts[m].wire = "bad"}

\* what a run of the transcript handler writes
handlerVars == <<agent_statuses, session_contexts, task, streamVars>>

\* C18: an undecodable entry never makes the read loop spin on it: it is
\* delivered once and logged, the handler is not invoked for it, the loop is
\* back at its read, and every entry that follows it in the stream is
\* delivered and handled to an end.
C18_PoisonMessage ==
  /\ [](\A m \in Poison :
          /\ deliveries[m] <= 1
          /\ hres[m] \in {"none", "undecodable"}
          /\ hres[m] = "undecodable" => deliveries[m] = 1)
  /\ [](pc[Main] \in {"extract", "fanout", "join", "ack"}
          => cur[Main] \notin Poison)
  /\ [][(pc[Main] = "deliv" /\ cur[Main] \in Poison /\ pc'[Main] # "deliv") =>
          /\ pc'[Main] = "read"
          /\ hres'[cur[Main]] = "undecodable"
          /\ handlerVars' = handlerVars]_vars
  /\ \A m \in 1..(MaxTranscripts - 1) :
        (m \in Poison /\ hres[m] = "undecodable" /\ Len(transcripts) > m)
          ~> /\ m + 1 \in DOMAIN hres
             /\ hres[m + 1] # "none"
             /\ deliveries[m + 1] >= 1

\* an undecodable entry has been logged and the decodable entry published
\* after it has been handled and acknowledged
C18_Witness ==
  /\ Len(transcripts) = 2
  /\ 1 \in Poison
  /\ hres[1] = "undecodable"
  /\ deliveries = <<1, 1>>
  /\ hres[2] = "ok"
  /\ 2 \in acked[Main]

\* a collaborator call made for entry m, the entry in hand, has failed: the
\* extraction raised, or an enrichment, synthesis or ranking call did
CollaboratorFailed(m) ==
  /\ cur[Main] = m
  /\ \/ hres[m] = "raised"
     \/ \E t \in DOMAIN task :
           \/ task[t].result = "raised"
           \/ task[t].syn \in {"raised", "fallback"}
           \/ task[t].rank = "raised"

\* C19: the failure of a collaborator call (extraction, enrichment,
\* synthesis, ranking) made while a transcript is handled never ends the
\* transcripts read loop: the loop does not exit, and the transcript entry
\* published after the one in hand is read and handled to an end.
C19_LoopSurvivesCollaborators ==
  /\ [](pc[Main] # "exit")
  /\ \A m \in 1..(MaxTranscripts - 1) :
        (CollaboratorFailed(m) /\ Len(transcripts) > m)
          ~> /\ cur[Main] > m
             /\ hres[m + 1] # "none"

\* the enrichment call of the first fragment failed, and the second fragment
\* has been handled and acknowledged
C19_Witness ==
  /\ Len(transcripts) = 2
  /\ transcripts[2].text = "tNone"
  /\ \E sid \in Sessions : StatusCount(sid, "person_enrichment", ERROR) >= 1
  /\ hres[2] = "ok"
  /\ 2 \in acked[Main]

\* the entities of the given type and name in the argument, and the jobs of
\* the given agent and entity name in the result
EntitiesOf(type, name) ==
  {i \in DOMAIN fn_arg : fn_arg[i].type = type /\ fn_arg[i].name = name}

JobsOf(agent, name) ==
  {j \in DOMAIN fn_ret : fn_ret[j] = [agent |-> agent, entity |-> name]}

\* C20: trigger_domain_intelligence schedules exactly 3 x #ORG + 1 x #PERSON
\* jobs for a fragment: a profile, a news and a competitor job for each ORG
\* entity, a person enrichment job for each PERSON entity, and no job for an
\* entity of another type.
C20_JobsPerEntity ==
  fn_pc = "ret" =>
    LET orgs == {i \in DOMAIN fn_arg : fn_arg[i].type = "ORG"}
        persons == {i \in DOMAIN fn_arg : fn_arg[i].type = "PERSON"}
    IN /\ Len(fn_ret) = 3 * Cardinality(orgs) + Cardinality(persons)
       /\ \A name \in EntityNames :
            /\ \A agent \in {"company_profile", "company_news",
                              "market_competitor"} :
                  Cardinality(JobsOf(agent, name)) =
                    Cardinality(EntitiesOf("ORG", name))
            /\ Cardinality(JobsOf("person_enrichment", name)) =
                  Cardinality(EntitiesOf("PERSON", name))

\* the call has returned for a fragment with an ORG, a PERSON and an entity
\* of another type: four jobs
C20_Witness ==
  /\ fn_pc = "ret"
  /\ Len(fn_arg) = 3
  /\ {fn_arg[i].type : i \in DOMAIN fn_arg} = {"ORG", "PERSON", "GPE"}
  /\ Len(fn_ret) = 4

\* the fragment in hand has no entity
NoEntities == process_text(Msg.text) = <<>>

\* synthesis invocations started for a session
SynthStarts(sid) == StatusCount(sid, "suggestion_generator", WORKING)

\* C21: a fragment with zero extracted entities schedules no enrichment job,
\* and readiness is evaluated once against the context the session has:
\* with evidence in domain_data one synthesis starts, in the handler itself,
\* and no other during the turn; with an empty domain_data nothing is
\* synthesized or published and the handler goes on to its end.
C21_ZeroEntities ==
  /\ [][(pc[Main] = "fanout" /\ pc'[Main] # "fanout" /\ NoEntities) =>
          IF HasEvidence(Context(Sid).domain_data)
          THEN /\ DOMAIN task' = {0}
               /\ task'[0].pc = "synW"
               /\ SynthStarts(Sid)' = SynthStarts(Sid) + 1
               /\ pc'[Main] = "join"
          ELSE /\ task' = EmptyMap
               /\ SynthStarts(Sid)' = SynthStarts(Sid)
               /\ suggestions' = suggestions
               /\ pc'[Main] = "ack"]_vars
  /\ []((pc[Main] \in {"join", "ack"} /\ NoEntities) => DOMAIN task \subseteq {0})
  /\ [][(pc[Main] \in {"join", "ack"} /\ NoEntities) =>
          SynthStarts(Sid)' = SynthStarts(Sid)]_vars

\* the second fragment has no entity, the first left evidence: the handler
\* of the second has run the synthesis and published its suggestions
C21_Witness ==
  /\ cur[Main] = 2
  /\ transcripts[2].text = "tNone"
  /\ pc[Main] = "join"
  /\ 0 \in DOMAIN task
  /\ task[0].rank = "ok"
  /\ Len(suggestions) >= 1

\* a suggestions_ready entry is appended to the stream in this step
Publishes == Len(suggestions') = Len(suggestions) + 1

\* C22: the provenance_chain carried by a suggestions_ready event is the
\* whole provenance_chain of its session at the moment of publishing, and
\* its last entry is the ranking entry appended by the same rank-and-publish
\* call: the chain of the session is one longer than before the call, and
\* the outputs of the last entry are the ranked list of the event.
C22_EventCarriesWholeChain ==
  [][Publishes =>
       LET ev == suggestions'[Len(suggestions')]
           now == session_contexts'[ev.session_id].provenance_chain
           before == Context(ev.session_id).provenance_chain
       IN /\ ev.provenance_chain = now
          /\ Len(now) = Len(before) + 1
          /\ now[Len(now)].agent_id = "ranking_agent"
          /\ now[Len(now)].outputs = ev.suggestions]_vars

\* two rank-and-publish calls of one session have published, the second
\* with a longer chain than the first
C22_Witness ==
  /\ Len(suggestions) = 2
  /\ suggestions[1].session_id = suggestions[2].session_id
  /\ Len(suggestions[2].provenance_chain) > Len(suggestions[1].provenance_chain)

\* C23: a ProvenanceEnvelope is immutable once appended: what an entry of a
\* session's provenance_chain records (agent, inputs, outputs) is the same
\* after every step, whatever runs afterwards.
C23_EnvelopesImmutable ==
  [][\A sid \in DOMAIN session_contexts :
       \A i \in DOMAIN Context(sid).provenance_chain :
         session_contexts'[sid].provenance_chain[i] =
           Context(sid).provenance_chain[i]]_vars

\* what tells the entries of a chain apart whatever is written into them
\* afterwards: the agent and what was handed to it by value
Identity(entry) ==
  IF entry.agent_id = "suggestion_generator"
  THEN [agent_id |-> entry.agent_id,
        inputs |-> [by_category |-> entry.inputs.by_category,
                    utterances |-> entry.inputs.utterances],
        ids |-> [j \in DOMAIN entry.outputs |-> entry.outputs[j].id]]
  ELSE IF entry.agent_id = "ranking_agent"
       THEN [agent_id |-> entry.agent_id,
             ids |-> [j \in DOMAIN entry.outputs |-> entry.outputs[j].id]]
       ELSE [agent_id |-> entry.agent_id, inputs |-> entry.inputs,
             outputs |-> entry.outputs]

\* C24: the provenance_chain of a session is append-only: in every step its
\* length stays or grows by the one entry appended, and the entries it held
\* are the same entries at the same positions.
C24_ChainAppendOnly ==
  [][\A sid \in DOMAIN session_contexts :
       LET old == Context(sid).provenance_chain
           new == session_contexts'[sid].provenance_chain
       IN /\ sid \in DOMAIN session_contexts'
          /\ Len(new) \in {Len(old), Len(old) + 1}
          /\ \A i \in DOMAIN old : Identity(new[i]) = Identity(old[i])]_vars

\* the chain of a session holds the entries of two turns: extraction,
\* enrichment, synthesis, ranking, and the extraction of the next fragment
C24_Witness ==
  \E sid \in DOMAIN session_contexts :
    LET chain == Context(sid).provenance_chain
    IN /\ Len(chain) >= 5
       /\ chain[1].agent_id = "entity_extractor"
       /\ chain[4].agent_id = "ranking_agent"
       /\ chain[5].agent_id = "entity_extractor"

\* job i stores its result in this step (_store_domain_data, lines 312-316)
Stores(i) ==
  /\ i \in DOMAIN task
  /\ i \in DOMAIN task'
  /\ task[i].pc = "call"
  /\ task'[i].pc = "stored"

\* the enrichment entries of a chain, and the writes made for a session
EnrichmentEntries(chain) ==
  {i \in DOMAIN chain :
     chain[i].agent_id \notin {"entity_extractor", "suggestion_generator",
                               "ranking_agent"}}

Writes(sid) ==
  {i \in DOMAIN domain_responses : domain_responses[i].session_id = sid}

\* C25: store_domain_data for (entity, job_kind) is last-write-wins and
\* history-preserving: after it domain_data[entity][job_kind] is the stored
\* result, every other slot is as before, and one provenance entry has been
\* appended; the enrichment entries of the chain are as many as the writes,
\* overwrites included.
C25_StoreLastWriteWins ==
  /\ [][\A i \in 1..MaxStoreJobs :
          Stores(i) =>
            LET dd == Context(Sid).domain_data
                new == session_contexts'[Sid].domain_data
                slot == <<task[i].entity, task[i].agent>>
                chain == session_contexts'[Sid].provenance_chain
            IN /\ new[slot[1]][slot[2]] = task'[i].value
               /\ Slots(new) = Slots(dd) \cup {slot}
               /\ \A sl \in Slots(dd) \ {slot} :
                     new[sl[1]][sl[2]] = dd[sl[1]][sl[2]]
               /\ Len(chain) = Len(Context(Sid).provenance_chain) + 1
               /\ chain[Len(chain)].agent_id = task[i].agent
               /\ chain[Len(chain)].outputs = task'[i].value]_vars
  /\ [](\A sid \in DOMAIN session_contexts :
          Cardinality(EnrichmentEntries(Context(sid).provenance_chain)) =
            Cardinality(Writes(sid)))

\* Bob's slot has been written for the second fragment while Eve's slot
\* holds the result of the first: two slots, three writes, three entries
C25_Witness ==
  /\ "s1" \in DOMAIN session_contexts
  /\ LET dd == Context("s1").domain_data
     IN /\ Slots(dd) = {<<"Bob", "person_enrichment">>,
                        <<"Eve", "person_enrichment">>}
        /\ dd["Bob"]["person_enrichment"].seq = 2
        /\ dd["Eve"]["person_enrichment"].seq = 1
  /\ Cardinality(EnrichmentEntries(Context("s1").provenance_chain)) = 3

\* the handler makes its status update for the extractor in this step:
\* WORKING when it starts (orchestrator.py:90), COMPLETED after the
\* extraction (orchestrator.py:128)
UpdatesStatus(from, to) == pc[Main] = from /\ pc'[Main] = to

StatusUpdated(status) ==
  /\ agent_statuses'["entity_extractor"] = status
  /\ IF CanPublish
     THEN StatusCount(Sid, "entity_extractor", status)' =
            StatusCount(Sid, "entity_extractor", status) + 1
     ELSE agent_status' = agent_status

\* C26: update_agent_status never raises: whether or not the broadcast goes
\* out, the Agent Status Table records the new status and the pipeline step
\* that called it goes on; a broadcast that fails appends nothing.  The
\* handler can always take its step, whatever the client and the transport.
C26_StatusUpdateNeverFatal ==
  /\ [][/\ UpdatesStatus("deliv", "extract") => StatusUpdated(WORKING)
        /\ UpdatesStatus("extract", "fanout") => StatusUpdated(COMPLETED)]_vars
  /\ [](pc[Main] = "deliv" => ENABLED Dispatch)
  /\ [](pc[Main] = "extract" => ENABLED Extract)

\* both broadcasts of a turn failed: the table says COMPLETED, the stream
\* holds no status entry, and the handler is past the extraction
C26_Witness ==
  /\ pc[Main] = "fanout"
  /\ agent_statuses["entity_extractor"] = COMPLETED
  /\ agent_status = EmptyBag

\* the handler leaves the point where it calls the extraction collaborator
\* (orchestrator.py:95)
CallsExtraction == pc[Main] = "extract" /\ pc'[Main] # "extract"

\* C27: entity extraction runs off the dispatch loop: the step in which the
\* handler calls the extraction collaborator hands the call over and leaves
\* the handler waiting for it ("extracting"), a state in which the other
\* tasks of the loop can take their steps; the result comes in a later step.
C27_ExtractionOffLoop ==
  [][CallsExtraction => pc'[Main] = "extracting"]_vars

StoredBy(slot) ==
  {i \in DOMAIN task : /\ i # 0
                       /\ task[i].result = "ok"
                       /\ <<task[i].entity, task[i].agent>> = slot}

\* the batch of the fragment in hand has joined
Joined == pc[Main] = "ack" /\ Sid \in DOMAIN session_contexts

\* the positions in the chain of the entries of the batch's jobs
EntryOf(i) ==
  CHOOSE n \in DOMAIN Context(Sid).provenance_chain :
    /\ Context(Sid).provenance_chain[n].agent_id = task[i].agent
    /\ Context(Sid).provenance_chain[n].outputs = task[i].value

\* C29: completion order does not matter: once a batch whose jobs are for
\* distinct slots has joined, domain_data is what the set of the jobs that
\* succeeded says, in whatever order they completed: each of them finds its
\* result in its slot, and every other slot holds what an earlier fragment
\* left there.
C29_CompletionOrderFree ==
  Joined =>
    LET dd == Context(Sid).domain_data
    IN /\ \A i \in DOMAIN task :
            (i # 0 /\ task[i].result = "ok") =>
              /\ <<task[i].entity, task[i].agent>> \in Slots(dd)
              /\ dd[task[i].entity][task[i].agent] = task[i].value
       /\ \A slot \in Slots(dd) :
            StoredBy(slot) = {} => dd[slot[1]][slot[2]].seq < cur[Main]

\* the two jobs of a fragment have stored, the second of the plan (Eve)
\* before the first (Bob), and the batch has joined
C29_Witness ==
  /\ Joined
  /\ DOMAIN task = {1, 2}
  /\ task[1].result = "ok" /\ task[2].result = "ok"
  /\ task[1].entity # task[2].entity
  /\ EntryOf(2) < EntryOf(1)

\* the jobs of the batch in hand that stored a result
Successful == {i \in DOMAIN task : i # 0 /\ task[i].result = "ok"}

\* the jobs of the batch in hand that made a synthesis invocation
Synthesized == {i \in DOMAIN task : i # 0 /\ task[i].syn # "none"}

\* C30: the readiness policy re-triggers per write: every successful
\* domain_data write starts its own synthesis invocation, so that a batch
\* with k successful jobs has made k synthesis invocations when it has
\* joined, and a session as many as it has had writes.
C30_SynthesisPerWrite ==
  /\ \A i \in DOMAIN task :
       (i # 0 /\ task[i].pc \in {"call", "stored"}) => task[i].syn = "none"
  /\ Synthesized \subseteq Successful
  /\ SynthStarts("s1") <= Cardinality(Writes("s1"))
  /\ Joined =>
       /\ Synthesized = Successful
       /\ SynthStarts("s1") = Cardinality(Writes("s1"))

\* a batch of two jobs has joined after two writes and two synthesis
\* invocations
C30_Witness ==
  /\ Joined
  /\ Len(transcripts) = 1
  /\ Cardinality(Successful) = 2
  /\ SynthStarts("s1") = 2

\* every job of the batch in hand stored its result, and its synthesis and
\* its ranking ended well
AllSynthesized ==
  /\ Cardinality(Successful) >= 2
  /\ \A i \in DOMAIN task :
        task[i].result = "ok" /\ task[i].syn = "llm" /\ task[i].rank = "ok"

\* the evidence the stored suggestions of the session in hand were computed
\* from: the by-category view in the inputs of the synthesis entry whose
\* outputs are context['suggestions']
StoredFrom ==
  Context(Sid).provenance_chain[Context(Sid).suggestions_ref].inputs.by_category

\* C31: racing synthesis invocations of one session do not corrupt the
\* context: once all of them have finished, the suggestions stored for the
\* session are the ones computed from the complete domain_data of the batch,
\* not from an earlier partial snapshot.
C31_RacingSynthesisKeepsLatest ==
  (Joined /\ AllSynthesized) =>
    StoredFrom = Transpose(Context(Sid).domain_data)

\* C32: the synthesis transposes the evidence exactly: for every entity e
\* and job kind k, by_category[k][e] is defined iff domain_data[e][k] is, and
\* then holds the same result; the only other key of domain_info is
\* raw_data, which holds the nested structure.
C32_TransposeExact ==
  fn_pc = "ret" =>
    /\ DOMAIN fn_ret \subseteq JobKinds \cup {"raw_data"}
    /\ fn_ret["raw_data"] = fn_arg
    /\ \A k \in JobKinds, e \in EntityNames :
         /\ (k \in DOMAIN fn_ret /\ e \in DOMAIN fn_ret[k])
              <=> (e \in DOMAIN fn_arg /\ k \in DOMAIN fn_arg[e])
         /\ (e \in DOMAIN fn_arg /\ k \in DOMAIN fn_arg[e])
              => fn_ret[k][e] = fn_arg[e][k]

\* domain_info has been built from evidence in which a job kind has results
\* for both entities and another kind for one of them
C32_Witness ==
  /\ fn_pc = "ret"
  /\ DOMAIN fn_arg = EntityNames
  /\ DOMAIN fn_ret = {"company_news", "person_enrichment", "raw_data"}
  /\ DOMAIN fn_ret["company_news"] = EntityNames
  /\ DOMAIN fn_ret["person_enrichment"] = {"Bob"}

\* C33: the ranking collaborator is a pure function of the suggestion list:
\* when rank_suggestions returns, the list it was given and the suggestion
\* records in it are as they were at the call.
C33_RankingLeavesInput ==
  [][(fn_pc = "call" /\ fn_pc' = "ret") => fn_arg' = fn_arg]_vars

\* a call of the client of the given name returns in this step
Returns(op) ==
  voice_call'.calls # voice_call.calls /\ voice_call'.op = op

\* C34: cleanup() can be called any number of times, before the transcriber
\* was started or after it stopped: it returns without raising, and every
\* call after the first leaves the fields of the transcriber and what it
\* holds as they are.
C34_CleanupIdempotent ==
  [][Returns("cleanup") =>
       /\ voice_call'.outcome = "returned"
       /\ transcriber'.is_cleaning_up
       /\ transcriber.is_cleaning_up =>
            UNCHANGED <<transcriber, devices>>]_vars

\* C34 witness: a second cleanup has returned after a start in between, with
\* the stream of that start still held.
C34_Witness ==
  /\ voice_call.op = "cleanup"
  /\ voice_call.calls >= 3
  /\ transcriber.stream
  /\ transcriber.is_cleaning_up

\* C39: whatever the client called before, when stop_streaming returns the
\* transcriber is not running and holds neither an audio stream nor a PyAudio
\* instance, and when start_streaming returns without a failure of PyAudio
\* the transcriber is running with a stream.
C39_StopReleasesStartRestarts ==
  [][/\ Returns("stop_streaming") =>
          /\ ~transcriber'.is_running
          /\ ~transcriber'.stream /\ ~transcriber'.audio
          /\ devices'.streams = 0 /\ devices'.handles = 0
     /\ (Returns("start_streaming")
           /\ voice_call'.outcome \in {"ok", "already"}) =>
          /\ transcriber'.is_running
          /\ transcriber'.stream /\ transcriber'.audio]_vars

\* C35: while an enrichment job of an agent is in flight (its runner has
\* marked the agent WORKING and has not yet marked it COMPLETED or ERROR) the
\* Agent Status Table shows the agent as WORKING, also when jobs of several
\* entities run for the same agent.
C35_TableShowsInFlight ==
  \A i \in Jobs :
    task[i].pc # "done" => agent_statuses[task[i].agent] = WORKING

\* C36: while a synthesis call runs, the two views of the evidence it was
\* handed, the by-category view and the nested view under raw_data (the
\* domain_data of the context itself), hold the same (entity, job kind,
\* result) triples, whatever other jobs write meanwhile.
C36_EvidenceIsSnapshot ==
  \A t \in DOMAIN task :
    task[t].pc = "synCall" =>
      Transpose(Context(Sid).domain_data) = task[t].snap.by_category

\* C37: in a batch with jobs of which none has returned a result, readiness
\* is not looked at and no synthesis is started, whatever domain_data holds
\* from earlier fragments: no coroutine of the batch is past its enrichment
\* call other than by its except branch, and no step marks the synthesis
\* agent WORKING.
C37_FailedBatchNoSynthesis ==
  /\ [](Jobs # {} /\ Successful = {} =>
          \A i \in DOMAIN task :
            /\ i # 0
            /\ task[i].pc \in {"call", "done"}
            /\ task[i].syn = "none")
  /\ [][Jobs # {} /\ Jobs' # {} /\ Successful' = {} =>
          \A sid \in Sessions : SynthStarts(sid)' = SynthStarts(sid)]_vars

\* C37 witness: the batch is joined, its only job has failed, and domain_data
\* holds the evidence of an earlier fragment.
C37_Witness ==
  /\ Joined
  /\ Jobs # {}
  /\ \A i \in Jobs : task[i].result = "raised"
  /\ HasEvidence(Context(Sid).domain_data)
  /\ Ready(Context(Sid).domain_data)

\* C38: the contexts of the sessions are isolated: a step changes or makes
\* at most the context of the session of the fragment in hand, the context
\* of every other session stays as it is, and no context is ever removed.
C38_SessionIsolation ==
  [][/\ DOMAIN session_contexts \subseteq DOMAIN session_contexts'
     /\ \A sid \in DOMAIN session_contexts' :
          (sid \notin DOMAIN session_contexts
             \/ session_contexts'[sid] # session_contexts[sid]) =>
            /\ cur[Main] \in DOMAIN transcripts
            /\ sid = transcripts[cur[Main]].session_id]_vars

\* C38 witness: both sessions have a context with evidence of their own
\* fragments, the second written after the first.
C38_Witness ==
  /\ DOMAIN session_contexts = Sessions
  /\ \A sid \in Sessions : HasEvidence(session_contexts[sid].domain_data)
  /\ session_contexts["s1"].domain_data # session_contexts["s2"].domain_data

\* C40: the handler returns, and the entry is acknowledged, only after every
\* enrichment job of the batch has ended; entities_extracted is published
\* only after the batch is joined, and so after every domain_data_ready of
\* the fragment: no domain_data_ready follows it.
C40_AckAfterJoin ==
  /\ [][(pc[Main] = "ack" /\ pc'[Main] = "read")
          \/ acked'[Main] # acked[Main] =>
          \A i \in Jobs : task[i].pc = "done"]_vars
  /\ [][Len(entities') > Len(entities) =>
          \A i \in Jobs : task[i].pc = "done"]_vars
  /\ [][Len(domain_responses') > Len(domain_responses) =>
          \A k \in DOMAIN entities : entities[k].pos # cur[Main]]_vars

\* C40 witness: the entry of a fragment with two jobs is acknowledged; its
\* entities_extracted and the domain_data_ready of both jobs are published.
C40_Witness ==
  \E k \in DOMAIN entities :
    /\ entities[k].pos \in acked[Main]
    /\ Cardinality({j \in DOMAIN domain_responses :
                      domain_responses[j].pos = entities[k].pos}) = 2

====
